---- MODULE Spec2Model ----
(***************************************************************************)
(* A model of xander's acquisition, caching, merge and ranking pipeline.   *)
(*                                                                         *)
(*   - the cache-aside resolvers  staples::get_cached  (card by name) and  *)
(*     checklist::get_printings_cached  (printings by card id);            *)
(*   - the collection store and the UI handlers that write to it;          *)
(*   - staples::fetch (merge / dedup), Checklist::new and the ranking      *)
(*     comparator.                                                         *)
(*                                                                         *)
(* Option<T> is the sequence of length 0 (None) or 1 (Some(x)).            *)
(***************************************************************************)
EXTENDS Integers, Sequences, FiniteSets, TLC

None == <<>>
Some(x) == <<x>>

MaxOf(a, b) == IF a >= b THEN a ELSE b

(***************************************************************************)
(* Bounds of the model.                                                    *)
(***************************************************************************)
\* resolve calls started in one behaviour of Spec
MaxCalls == 3
\* resolve calls beyond the size of the permit pool in SpecPermits
ExtraCalls == 1
\* rows the two scrapers return together
MaxRows == 3
\* UI actions on the checklist
MaxEdits == 2
\* owned versions of the largest entry handed to the comparator
MaxOwned == 5
\* the sizes of the checklists the stats are calculated on: every size up
\* to ShortDeck, and LongDeck
ShortDeck == 12
LongDeck == 142
\* the number of lines of a decklist file
MaxDeck == 2
\* the longest of the arbitrary names that are normalized
MaxName == 4

(***************************************************************************)
(* The card data provider (scryfall), as far as the program reads it.      *)
(* A card has a printing id, a name, the names of its faces (empty for a   *)
(* single-faced card), Option colors and an Option type line.              *)
(***************************************************************************)
\* scryfall::card::Color, by its discriminant (the derived Ord's order)
White == 1
Blue == 2
Black == 4
Red == 8
Green == 16

Face(name, colors) == [name |-> name, colors |-> colors]

\* a type line is the sequence of its words
Opt ==
    [id |-> "id-opt", name |-> "Opt", card_faces |-> None,
     colors |-> Some(<<Blue>>), type_line |-> Some(<<"Instant">>)]
\* a split card: two faces, the colors on the card
FireIce ==
    [id |-> "id-fire", name |-> "Fire // Ice",
     card_faces |-> Some(<<Face("Fire", None), Face("Ice", None)>>),
     colors |-> Some(<<Blue, Red>>),
     type_line |-> Some(<<"Instant", "//", "Instant">>)]
\* a transforming card: two faces, the colors on the faces
Delver ==
    [id |-> "id-delver", name |-> "Delver of Secrets // Insectile Aberration",
     card_faces |-> Some(<<Face("Delver of Secrets", Some(<<Blue>>)),
                          Face("Insectile Aberration", Some(<<Blue>>))>>),
     colors |-> None,
     type_line |-> Some(<<"Creature", "//", "Creature">>)]
Forest ==
    [id |-> "id-forest", name |-> "Forest", card_faces |-> None,
     colors |-> Some(<<>>), type_line |-> Some(<<"Basic", "Land", "Forest">>)]
\* a card object named like a basic land that carries no type line
UntypedForest ==
    [id |-> "id-forest-untyped", name |-> "Forest", card_faces |-> None,
     colors |-> Some(<<>>), type_line |-> None]
\* a basic land that is not one of the five named ones
SnowForest ==
    [id |-> "id-snow-forest", name |-> "Snow-Covered Forest", card_faces |-> None,
     colors |-> Some(<<>>),
     type_line |-> Some(<<"Basic", "Snow", "Land", "Forest">>)]

\* scryfall::Card::named(name): the card of that exact name
Named(name) ==
    CASE name = "Opt" -> Opt
      [] name = "Fire // Ice" -> FireIce
      [] name = "Fire" -> FireIce
      [] name = "Delver of Secrets" -> Delver
      [] name = "Forest" -> Forest

\* card.prints_search_uri.fetch_iter() joined with scryfall::Set::code:
\* the set codes of the card's printings
PrintsOf(id) ==
    CASE id = "id-opt" -> <<"m21", "xln">>
      [] id = "id-fire" -> <<"mh2">>
      [] id = "id-delver" -> <<"isd", "mid">>
      [] id = "id-forest" -> <<"m21">>
      [] id = "id-forest-untyped" -> <<"m21">>
      [] id = "id-snow-forest" -> <<"mh1">>

\* str::cmp on the names of the cards above (byte order)
\* the names of the cards of a long checklist: "c001", "c002", ...
StatName(i) ==
    IF i < 10 THEN "c00" \o ToString(i)
    ELSE IF i < 100 THEN "c0" \o ToString(i)
    ELSE "c" \o ToString(i)

NameOrder ==
    <<"Delver of Secrets // Insectile Aberration", "Fire // Ice", "Forest", "Opt",
      "Snow-Covered Forest">>
        \o [i \in 1..LongDeck |-> StatName(i)]
NameRank(name) == CHOOSE i \in 1..Len(NameOrder) : NameOrder[i] = name

(***************************************************************************)
(* The two cache-aside resolvers.  Both run the same algorithm; they       *)
(* differ in the key they look up, the value they fetch and the key they   *)
(* insert the value under.                                                 *)
(***************************************************************************)
Resolvers == {"card", "printings"}

\* what callers ask each resolver for: card names as the scrapers read
\* them, the ids of the cards Checklist::new builds entries for
Requests(r) ==
    IF r = "card" THEN {"Opt", "Fire // Ice"} ELSE {"id-opt", "id-fire"}

AllRequests == Requests("card") \cup Requests("printings")

fix_lotr_accented_cards(card) ==
    CASE card = "Lorien Revealed" -> "Lórien Revealed"
      [] card = "Troll of Khazad-dum" -> "Troll of Khazad-dûm"
      [] OTHER -> card

\* the key of  cache.read().await.get(..)
LookupKey(r, req) ==
    IF r = "card" THEN fix_lotr_accented_cards(req) ELSE req

\* the value of the external fetch
Fetched(r, req) ==
    IF r = "card" THEN Named(fix_lotr_accented_cards(req)) ELSE PrintsOf(req)

\* the key of  cache.insert(..)
InsertKey(r, req) ==
    IF r = "card"
       THEN LET card == Fetched(r, req)
            IN  IF card.card_faces # None /\ Len(card.card_faces[1]) > 0
                   THEN card.card_faces[1][1].name
                   ELSE card.name
       ELSE req

(***************************************************************************)
(* Maps (HashMap) and their JSON file.                                     *)
(***************************************************************************)
EmptyMap == <<>>

Put(m, k, v) == [x \in DOMAIN m \cup {k} |-> IF x = k THEN v ELSE m[x]]

RECURSIVE SetToSeq(_)
SetToSeq(S) ==
    IF S = {} THEN <<>>
    ELSE LET x == CHOOSE y \in S : TRUE
         IN  <<x>> \o SetToSeq(S \ {x})

\* a faulty variant of to_vec: the last entry is not written
to_vec_truncated(m) == [i \in 1..(Cardinality(DOMAIN m) - 1) |->
                           LET k == SetToSeq(DOMAIN m)[i] IN <<k, m[k]>>]
\* serde_json::to_vec: the entries of the map, one after the other
to_vec(m) == [i \in 1..Cardinality(DOMAIN m) |->
                 LET k == SetToSeq(DOMAIN m)[i] IN <<k, m[k]>>]

\* the map a JSON object decodes to: a repeated key keeps its last value
RECURSIVE from_entries(_)
from_entries(data) ==
    IF data = <<>> THEN EmptyMap
    ELSE LET n == Len(data)
         IN  Put(from_entries(SubSeq(data, 1, n - 1)), data[n][1], data[n][2])

\* A file is absent, holds no byte at all ("empty"), holds bytes that are
\* not a JSON object of the schema ("corrupt"), or holds a JSON object.
AbsentFile == [state |-> "absent", data |-> <<>>]
ZeroByteFile == [state |-> "empty", data |-> <<>>]
CorruptFile == [state |-> "corrupt", data |-> <<>>]
JsonFile(m) == [state |-> "json", data |-> to_vec(m)]

\* serde_json::from_slice succeeds on a JSON object only
Decodes(f) == f.state = "json"
from_slice(f) == from_entries(f.data)

\* the entries a file holds
FileEntries(f) == IF Decodes(f) THEN from_slice(f) ELSE EmptyMap

(***************************************************************************)
(* State of one resolver instance (the statics of one process).            *)
(***************************************************************************)
VARIABLES
    resolver,     \* which of the two resolvers this instance is
    requests,     \* the keys its callers ask for
    budget,       \* resolve calls not yet started
    file,         \* the backing file  staples.json / printings.json
    loaded,       \* STAPLE_CACHE (OnceCell) is initialized
    cache,        \* the map behind the RwLock
    writeLocked,  \* the RwLock is held by a writer
    permits,      \* free permits of CONCURRENCY
    calls,        \* in-flight calls: how many per <<request, position>>
    bytes,        \* the serialized map the writer is about to write
    fetched,      \* history: external fetches answered, per request
    initial,      \* history: the map the file was loaded as
    returned,     \* history: the <<request, value>> of every Ok(..) returned
    failed,       \* history: the number of Err(..) returned
    ioFailed      \* history: a tokio::fs::write of the cache file has failed

rvars == <<resolver, requests, budget, file, loaded, cache, writeLocked,
           permits, calls, bytes, fetched, initial, returned, failed, ioFailed>>

(***************************************************************************)
(* State of one run of main(): scrape, merge, build the checklist, then    *)
(* the UI works on it.                                                     *)
(***************************************************************************)
VARIABLES
    stage,        \* how far main() is
    top8,         \* what mtgtop8::fetch returned
    goldfish,     \* what goldfish::fetch returned
    collection,   \* the Collection main() loaded
    staples,      \* what staples::fetch returned
    checklist,    \* the Checklist: a sequence of ChecklistCard
    view,         \* what the last ignoring_collection() returned
    edits         \* UI actions the user has left

pvars == <<stage, top8, goldfish, collection, staples, checklist,
           view, edits>>

(***************************************************************************)
(* Two checklist entries handed to the comparator.                         *)
(***************************************************************************)
VARIABLES
    lhs, rhs,     \* the entries compared
    usingOrd,     \* lhs.cmp_using_collected(rhs)
    ignoringOrd   \* lhs.cmp_ignoring_collected(rhs)

kvars == <<lhs, rhs, usingOrd, ignoringOrd>>

(***************************************************************************)
(* The collection file and the background tasks of the UI.                 *)
(***************************************************************************)
VARIABLES
    disk,         \* collection.json
    tasks         \* the tasks spawned by background(), in the order spawned

cvars == <<disk, tasks>>

(***************************************************************************)
(* One run of ui::stats::calculate on the checklist.                       *)
(***************************************************************************)
VARIABLES
    counters,     \* the 8 counters of the scan
    top_cards,    \* the entries scanned (indices into the checklist), in
                  \* the order scanned
    ranked,       \* top_cards after its sort_by
    stats         \* the Stats returned, None while the scan runs

svars == <<counters, top_cards, ranked, stats>>

(***************************************************************************)
(* One name on its way through card_name: a name is the sequence of its    *)
(* characters.                                                             *)
(***************************************************************************)
VARIABLES
    raw,         \* the name as it was read
    cname,          \* Some(the &CName made from it), None before
    trimmed       \* Some(that name after trimming_double_faced), None before

nvars == <<raw, cname, trimmed>>

(***************************************************************************)
(* The two scrapers under staples::fetch.                                  *)
(***************************************************************************)
VARIABLES
    pages,        \* goldfish: what each of the three category URLs answers
    scraped,      \* goldfish: the categories scraped, in order of completion,
                  \* each with its rows in the order its lookups completed
    goldfishTask, \* goldfish::fetch: "running", "ok" or "err"
    top8Task      \* the task spawned for mtgtop8::fetch: "running", "ok",
                  \* "err" or "panicked"

jvars == <<pages, scraped, goldfishTask, top8Task>>

(***************************************************************************)
(* One row of a scraper on its way to the metadata of a checklist entry.   *)
(***************************************************************************)
VARIABLES
    cells,        \* the site and the texts of the percent and copies cells
    rowMeta,      \* Some(the Option<Metadata> of the staple), None before
    entryMeta     \* Some(the metadata of the ChecklistCard), None before

mvars == <<cells, rowMeta, entryMeta>>

(***************************************************************************)
(* One run of deckbuilder::check.                                          *)
(***************************************************************************)
VARIABLES
    deck,         \* the lines of the file
    shelf,        \* the collection, by the characters of the names
    cursor,       \* the number of lines read
    decklist,     \* Decklist::decklist: name -> Entry
    verdict,      \* "reading", "displayed", "err" or "panicked"
    named         \* Some(the line the error names), None without an error

dvars == <<deck, shelf, cursor, decklist, verdict, named>>

vars == <<rvars, pvars, kvars, cvars, svars, nvars, jvars, mvars, dvars>>
OutsideResolver == <<pvars, kvars, cvars, svars, nvars, jvars, mvars, dvars>>
OutsidePipeline == <<rvars, kvars, cvars, svars, nvars, jvars, mvars, dvars>>
OutsideComparator == <<rvars, pvars, cvars, svars, nvars, jvars, mvars, dvars>>
OutsideCollection == <<rvars, kvars, svars, nvars, jvars, mvars, dvars>>
OutsideStats == <<rvars, pvars, kvars, cvars, nvars, jvars, mvars, dvars>>
OutsideNames == <<rvars, pvars, kvars, cvars, svars, jvars, mvars, dvars>>
OutsideJoin == <<rvars, kvars, cvars, svars, nvars, mvars, dvars>>
OutsideCells == <<rvars, pvars, kvars, cvars, svars, nvars, jvars, dvars>>
OutsideDeck == <<rvars, pvars, kvars, cvars, svars, nvars, jvars, mvars>>

\* the size of the permit pool:  Semaphore::const_new(8)
Permits == 8

\* positions of a call that missed the cache
Pcs == {"acquire", "fetch", "insert", "write"}
Slots == requests \X Pcs

At(req, pc) == calls[<<req, pc>>]
Move(req, from, to) ==
    [s \in Slots |->
        IF s = <<req, from>> THEN calls[s] - 1
        ELSE IF s = <<req, to>> THEN calls[s] + 1
        ELSE calls[s]]
Enter(req, to) == [calls EXCEPT ![<<req, to>>] = @ + 1]
Leave(req, from) == [calls EXCEPT ![<<req, from>>] = @ - 1]

InFlight == {s \in Slots : calls[s] > 0}
Holders ==
    LET RECURSIVE Sum(_)
        Sum(S) == IF S = {} THEN 0
                  ELSE LET s == CHOOSE x \in S : TRUE
                       IN  calls[s] + Sum(S \ {s})
    IN  Sum({s \in Slots : s[2] # "acquire"})
Fetching ==
    LET RECURSIVE Sum(_)
        Sum(S) == IF S = {} THEN 0
                  ELSE LET s == CHOOSE x \in S : TRUE
                       IN  calls[s] + Sum(S \ {s})
    IN  Sum({s \in Slots : s[2] = "fetch"})

\* files a process can find at start
StartFiles(r) ==
    LET first == CHOOSE req \in Requests(r) : InsertKey(r, req) = LookupKey(r, req)
    IN  {AbsentFile, CorruptFile, JsonFile(EmptyMap),
         JsonFile(Put(EmptyMap, InsertKey(r, first), Fetched(r, first)))}

\* the one key every caller asks for, where the callers contend for permits
OneRequest(r) == IF r = "card" THEN {"Opt"} ELSE {"id-opt"}

\* the process has started: nothing is loaded, n calls are still to come
ResolverStart(oneKey, n) ==
    /\ resolver \in Resolvers
    /\ requests = IF oneKey THEN OneRequest(resolver) ELSE Requests(resolver)
    /\ budget = n
    /\ file \in StartFiles(resolver)
    /\ loaded = FALSE
    /\ cache = EmptyMap
    /\ writeLocked = FALSE
    /\ permits = Permits
    /\ calls = [s \in requests \X Pcs |-> 0]
    /\ bytes = <<>>
    /\ fetched = [req \in requests |-> 0]
    /\ initial = EmptyMap
    /\ returned = {}
    /\ failed = 0
    /\ ioFailed = FALSE

\* the process has started on a file that holds the first key (the calls
\* for it hit, the calls for the other key miss and contend for permits)
\* or on a file that does not decode
HitsStart ==
    /\ resolver \in Resolvers
    /\ requests = Requests(resolver)
    /\ budget = Permits + ExtraCalls
    /\ file \in {f \in StartFiles(resolver) :
                    FileEntries(f) # EmptyMap \/ f = CorruptFile}
    /\ loaded = FALSE
    /\ cache = EmptyMap
    /\ writeLocked = FALSE
    /\ permits = Permits
    /\ calls = [s \in requests \X Pcs |-> 0]
    /\ bytes = <<>>
    /\ fetched = [req \in requests |-> 0]
    /\ initial = EmptyMap
    /\ returned = {}
    /\ failed = 0
    /\ ioFailed = FALSE

(***************************************************************************)
(* get_cached / get_printings_cached, one action per stretch between two   *)
(* suspension points.                                                      *)
(***************************************************************************)

\* STAPLE_CACHE.get_or_try_init: the file as a map, created when absent
LoadedMap == IF file.state = "absent" THEN EmptyMap ELSE from_slice(file)
LoadedFile == IF file.state = "absent" THEN ZeroByteFile ELSE file
\* a faulty variant of CanLoad: whatever the file holds is taken for a map
CanLoadAnything == TRUE
CanLoad == file.state = "absent" \/ Decodes(file)

\* a faulty variant of CallChecks: every call reads the file again
CallChecksReloading(req) ==
    /\ budget > 0
    /\ req \in requests
    /\ CanLoad
    /\ ~writeLocked
    /\ budget' = budget - 1
    /\ LET map == LoadedMap
           key == LookupKey(resolver, req)
       IN  /\ loaded' = TRUE
           /\ cache' = map
           /\ initial' = IF loaded THEN initial ELSE map
           /\ file' = LoadedFile
           /\ IF key \in DOMAIN map
                 THEN /\ returned' = returned \cup {<<req, map[key]>>}
                      /\ calls' = calls
                 ELSE /\ returned' = returned
                      /\ calls' = Enter(req, "acquire")
    /\ UNCHANGED <<resolver, requests, writeLocked, permits, bytes, fetched,
                   failed, ioFailed>>
    /\ UNCHANGED OutsideResolver
\* a faulty variant of CallChecks: a hit goes through the permit pool too
CallChecksThroughPool(req) ==
    /\ budget > 0
    /\ req \in requests
    /\ loaded \/ CanLoad
    /\ ~writeLocked
    /\ budget' = budget - 1
    /\ loaded' = TRUE
    /\ cache' = IF loaded THEN cache ELSE LoadedMap
    /\ initial' = IF loaded THEN initial ELSE LoadedMap
    /\ file' = IF loaded THEN file ELSE LoadedFile
    /\ calls' = Enter(req, "acquire")
    /\ UNCHANGED <<resolver, requests, writeLocked, permits, bytes, fetched,
                   failed, ioFailed, returned>>
    /\ UNCHANGED OutsideResolver
\* A call up to its read of the cache, when the cell initializes or is
\* initialized: a hit returns the cached value, a miss goes on to the
\* permit pool.  (The read lock is taken and dropped within the step.)
CallChecks(req) ==
    /\ budget > 0
    /\ req \in requests
    /\ loaded \/ CanLoad
    /\ ~writeLocked
    /\ budget' = budget - 1
    /\ LET map == IF loaded THEN cache ELSE LoadedMap
           key == LookupKey(resolver, req)
       IN  /\ loaded' = TRUE
           /\ cache' = map
           /\ initial' = IF loaded THEN initial ELSE map
           /\ file' = IF loaded THEN file ELSE LoadedFile
           /\ IF key \in DOMAIN map
                 THEN /\ returned' = returned \cup {<<req, map[key]>>}
                      /\ calls' = calls
                 ELSE /\ returned' = returned
                      /\ calls' = Enter(req, "acquire")
    /\ UNCHANGED <<resolver, requests, writeLocked, permits, bytes, fetched,
                   failed, ioFailed>>
    /\ UNCHANGED OutsideResolver

\* the first call finds a file that does not decode:  get_or_try_init
\* fails, the cell stays uninitialized and the call returns the error
CallFailsToLoad(req) ==
    /\ budget > 0
    /\ req \in requests
    /\ ~loaded
    /\ ~CanLoad
    /\ budget' = budget - 1
    /\ failed' = failed + 1
    /\ UNCHANGED <<resolver, requests, file, loaded, cache, writeLocked,
                   permits, calls, bytes, fetched, initial, returned, ioFailed>>
    /\ UNCHANGED OutsideResolver

\* a faulty variant of the guard below: acquire() never waits
AcquireGuardBroken == TRUE
\* CONCURRENCY.acquire().await
AcquireGuard == permits > 0
Acquire(req) ==
    /\ At(req, "acquire") > 0
    /\ AcquireGuard
    /\ permits' = permits - 1
    /\ calls' = Move(req, "acquire", "fetch")
    /\ UNCHANGED <<resolver, requests, budget, file, loaded, cache,
                   writeLocked, bytes, fetched, initial, returned, failed,
                   ioFailed>>
    /\ UNCHANGED OutsideResolver

\* the external fetch answers
FetchOk(req) ==
    /\ At(req, "fetch") > 0
    /\ calls' = Move(req, "fetch", "insert")
    /\ fetched' = [fetched EXCEPT ![req] = @ + 1]
    /\ UNCHANGED <<resolver, requests, budget, file, loaded, cache,
                   writeLocked, permits, bytes, initial, returned, failed,
                   ioFailed>>
    /\ UNCHANGED OutsideResolver

\* a faulty variant of FetchErr: the call goes back for another attempt
FetchErrRetried(req) ==
    /\ At(req, "fetch") > 0
    /\ calls' = Move(req, "fetch", "acquire")
    /\ permits' = permits + 1
    /\ UNCHANGED <<resolver, requests, budget, file, loaded, cache,
                   writeLocked, bytes, fetched, initial, returned, failed,
                   ioFailed>>
    /\ UNCHANGED OutsideResolver
\* the external fetch fails:  `?` returns the error and drops the permit
FetchErr(req) ==
    /\ At(req, "fetch") > 0
    /\ calls' = Leave(req, "fetch")
    /\ permits' = permits + 1
    /\ failed' = failed + 1
    /\ UNCHANGED <<resolver, requests, budget, file, loaded, cache,
                   writeLocked, bytes, fetched, initial, returned, ioFailed>>
    /\ UNCHANGED OutsideResolver

\* a faulty variant of Inserted: the insert forgets the entries of the map
InsertedAlone(map, req) ==
    Put(EmptyMap, InsertKey(resolver, req), Fetched(resolver, req))
\* cache.write().await; cache.insert(..)
Inserted(map, req) ==
    Put(map, InsertKey(resolver, req), Fetched(resolver, req))
\* a faulty variant of Serialized: the bytes are taken before the insert
SerializedBeforeInsert(map, req) == to_vec(map)
\* serde_json::to_vec(&*cache)
Serialized(map, req) == to_vec(Inserted(map, req))
Insert(req) ==
    /\ At(req, "insert") > 0
    /\ ~writeLocked
    /\ writeLocked' = TRUE
    /\ cache' = Inserted(cache, req)
    /\ bytes' = Serialized(cache, req)
    /\ calls' = Move(req, "insert", "write")
    /\ UNCHANGED <<resolver, requests, budget, file, loaded, permits,
                   fetched, initial, returned, failed, ioFailed>>
    /\ UNCHANGED OutsideResolver

\* tokio::fs::write(cache_dir(), cache).await succeeds; the call returns
\* Ok(value) and drops the write guard and the permit
WriteOk(req) ==
    /\ At(req, "write") > 0
    /\ file' = [state |-> "json", data |-> bytes]
    /\ bytes' = <<>>
    /\ writeLocked' = FALSE
    /\ permits' = permits + 1
    /\ calls' = Leave(req, "write")
    /\ returned' = returned \cup {<<req, Fetched(resolver, req)>>}
    /\ UNCHANGED <<resolver, requests, budget, loaded, cache, fetched,
                   initial, failed, ioFailed>>
    /\ UNCHANGED OutsideResolver

\* a faulty variant of WriteErr: the error path keeps the permit
WriteErrKeepsPermit(req) ==
    /\ At(req, "write") > 0
    /\ file' \in {file, ZeroByteFile}
    /\ bytes' = <<>>
    /\ writeLocked' = FALSE
    /\ calls' = Leave(req, "write")
    /\ failed' = failed + 1
    /\ ioFailed' = TRUE
    /\ UNCHANGED <<resolver, requests, budget, loaded, cache, fetched,
                   initial, returned, permits>>
    /\ UNCHANGED OutsideResolver
\* tokio::fs::write fails: the file keeps its bytes or is left truncated;
\* `?` returns the error and drops the write guard and the permit
WriteErr(req) ==
    /\ At(req, "write") > 0
    /\ file' \in {file, ZeroByteFile}
    /\ bytes' = <<>>
    /\ writeLocked' = FALSE
    /\ permits' = permits + 1
    /\ calls' = Leave(req, "write")
    /\ failed' = failed + 1
    /\ ioFailed' = TRUE
    /\ UNCHANGED <<resolver, requests, budget, loaded, cache, fetched,
                   initial, returned>>
    /\ UNCHANGED OutsideResolver

\* the steps of the calls in flight: the runtime polls every task that is
\* ready, the semaphore and the lock wake their waiters, and the fetches
\* and the file operations end
Progress ==
    \E req \in requests :
        \/ Acquire(req)
        \/ FetchOk(req)
        \/ FetchErr(req)
        \/ Insert(req)
        \/ WriteOk(req)
        \/ WriteErr(req)

ResolverNext ==
    \E req \in requests :
        \/ CallChecks(req)
        \/ CallFailsToLoad(req)
        \/ Acquire(req)
        \/ FetchOk(req)
        \/ FetchErr(req)
        \/ Insert(req)
        \/ WriteOk(req)
        \/ WriteErr(req)

(***************************************************************************)
(* std::cmp::Ordering.                                                     *)
(***************************************************************************)
reverse(o) == CASE o = "Less" -> "Greater" [] o = "Greater" -> "Less" [] OTHER -> o
then_with(o, next) == IF o = "Equal" THEN next ELSE o

\* Ord on integers; f32::total_cmp on the percents and products the program
\* computes (finite and non-negative; they are integers in this model)
total_cmp(a, b) == IF a < b THEN "Less" ELSE IF a > b THEN "Greater" ELSE "Equal"

\* Ord on slices: lexicographic, a proper prefix is less
RECURSIVE slice_cmp(_, _)
slice_cmp(a, b) ==
    IF a = <<>> /\ b = <<>> THEN "Equal"
    ELSE IF a = <<>> THEN "Less"
    ELSE IF b = <<>> THEN "Greater"
    ELSE then_with(total_cmp(Head(a), Head(b)), slice_cmp(Tail(a), Tail(b)))

\* Ord on Option<&[Color]>: None is less than Some
option_slice_cmp(a, b) ==
    IF a = None /\ b = None THEN "Equal"
    ELSE IF a = None THEN "Less"
    ELSE IF b = None THEN "Greater"
    ELSE slice_cmp(a[1], b[1])

str_cmp(a, b) == total_cmp(NameRank(a), NameRank(b))

\* Ord on the Uuid of the cards above
IdOrder == <<"id-delver", "id-fire", "id-forest", "id-forest-untyped", "id-opt",
            "id-snow-forest">>
IdRank(id) == CHOOSE i \in 1..Len(IdOrder) : IdOrder[i] = id
uuid_cmp(a, b) == total_cmp(IdRank(a), IdRank(b))

\* the permutations of 1..n
Perms(n) == {f \in [1..n -> 1..n] : \A i, j \in 1..n : f[i] = f[j] => i = j}
Permuted(seq, f) == [i \in 1..Len(seq) |-> seq[f[i]]]

(***************************************************************************)
(* staples::Metadata and staples::fetch.                                   *)
(***************************************************************************)
\* a faulty variant of Metadata::new: one absent field defaults both
MetadataNewTogether(percent_in_decks, num_copies) ==
    IF percent_in_decks = None \/ num_copies = None
       THEN [percent_in_decks |-> 100, num_copies |-> 4]
       ELSE [percent_in_decks |-> percent_in_decks[1], num_copies |-> num_copies[1]]
MetadataNew(percent_in_decks, num_copies) ==
    [percent_in_decks |-> IF percent_in_decks = None THEN 100 ELSE percent_in_decks[1],
     num_copies |-> IF num_copies = None THEN 4 ELSE num_copies[1]]

\* a row of a scraper: (Card, Some(Metadata))
Row(card, percent, copies) == <<card, Some(MetadataNew(percent, copies))>>

\* a faulty variant of MetaCmp: the percents ascending
MetaCmpBroken(meta_a, meta_b) ==
    IF meta_a # None /\ meta_b # None
       THEN total_cmp(meta_a[1].percent_in_decks, meta_b[1].percent_in_decks)
    ELSE IF meta_a = None /\ meta_b # None THEN "Greater"
    ELSE IF meta_a # None /\ meta_b = None THEN "Less"
    ELSE "Equal"
\* the closure of top8.sort_unstable_by, on the metadata of two rows of one
\* id
MetaCmp(meta_a, meta_b) ==
    IF meta_a # None /\ meta_b # None
       THEN reverse(total_cmp(meta_a[1].percent_in_decks, meta_b[1].percent_in_decks))
    ELSE IF meta_a = None /\ meta_b # None THEN "Greater"
    ELSE IF meta_a # None /\ meta_b = None THEN "Less"
    ELSE "Equal"
StapleCmp(a, b) == then_with(uuid_cmp(a[1].id, b[1].id), MetaCmp(a[2], b[2]))

\* sort_unstable_by: some ordering of the rows that the closure accepts;
\* which one, among rows that compare Equal, is not specified
SortedBy(seq) == \A i \in 1..(Len(seq) - 1) : StapleCmp(seq[i], seq[i + 1]) # "Greater"
SortUnstable(rows) ==
    {sorted \in {Permuted(rows, f) : f \in Perms(Len(rows))} : SortedBy(sorted)}

\* a faulty variant of Dedup: nothing is removed
DedupKeepingAll(rows) == rows
\* top8.dedup_by(|(a, _), (b, _)| a.id == b.id): of each run of rows of one
\* id the first is kept
RECURSIVE Dedup(_)
Dedup(rows) ==
    IF Len(rows) <= 1 THEN rows
    ELSE LET n == Len(rows)
             front == Dedup(SubSeq(rows, 1, n - 1))
         IN  IF rows[n][1].id = front[Len(front)][1].id
                THEN front
                ELSE Append(front, rows[n])

\* staples::fetch, both scrapers having answered
StaplesFetch ==
    /\ stage = "scraped"
    /\ \E sorted \in SortUnstable(top8 \o goldfish) : staples' = Dedup(sorted)
    /\ stage' = "fetched"
    /\ UNCHANGED <<top8, goldfish, collection, checklist, view, edits>>
    /\ UNCHANGED OutsidePipeline

(***************************************************************************)
(* card_name and collection::Collection.                                   *)
(***************************************************************************)
\* card_name::trim_if_double_faced on the names above: the text before the
\* first '/', trimmed
trim_if_double_faced(name) ==
    CASE name = "Fire // Ice" -> Some("Fire")
      [] name = "Delver of Secrets // Insectile Aberration" -> Some("Delver of Secrets")
      [] OTHER -> None

\* CName::from(&str) then CName::trimming_double_faced
trimming_double_faced(name) ==
    LET fixed == fix_lotr_accented_cards(name)
    IN  IF trim_if_double_faced(fixed) # None
           THEN trim_if_double_faced(fixed)[1]
           ELSE fixed

\* Collection::get
CollectionGet(coll, name) ==
    IF trimming_double_faced(name) \in DOMAIN coll
       THEN coll[trimming_double_faced(name)]
       ELSE <<>>

(***************************************************************************)
(* checklist::ChecklistCard and its comparator.                            *)
(***************************************************************************)
ChecklistCard(card, printings, owned, metadata) ==
    [card |-> card, printings |-> printings, owned_versions |-> owned,
     metadata |-> metadata]

\* a faulty variant of add_version: the copy is taken off the copies wanted
add_version_counting(entry, code) ==
    [entry EXCEPT !.owned_versions = Append(@, code),
                  !.metadata.num_copies = @ - 1]
\* add_version: push
add_version(entry, code) ==
    [entry EXCEPT !.owned_versions = Append(@, code)]

\* a faulty variant of RemoveFirst: every occurrence is removed
RemoveEvery(v, code) ==
    LET Other(c) == c # code
    IN  SelectSeq(v, Other)
\* remove_version: remove the first occurrence, if there is one
RemoveFirst(v, code) ==
    IF \E i \in 1..Len(v) : v[i] = code
       THEN LET index == CHOOSE i \in 1..Len(v) :
                            v[i] = code /\ \A j \in 1..(i - 1) : v[j] # code
            IN  SubSeq(v, 1, index - 1) \o SubSeq(v, index + 1, Len(v))
       ELSE v
remove_version(entry, code) ==
    [entry EXCEPT !.owned_versions = RemoveFirst(@, code)]

\* a faulty variant of saturating_sub: plain subtraction
saturating_sub_wrong(a, b) == a - b
\* usize::saturating_sub
saturating_sub(a, b) == IF a >= b THEN a - b ELSE 0

colors_of(card) ==
    IF card.colors # None THEN card.colors
    ELSE IF card.card_faces # None /\ Len(card.card_faces[1]) > 0
            THEN card.card_faces[1][1].colors
            ELSE None

\* the two `missing` functions
missing_using_collected(c) ==
    saturating_sub(c.metadata.num_copies, Len(c.owned_versions))
\* a faulty variant of missing_ignoring_collected: the owned versions count
missing_ignoring_collected_wrong(c) == missing_using_collected(c)
missing_ignoring_collected(c) == c.metadata.num_copies
Missing(mode, c) ==
    IF mode = "using" THEN missing_using_collected(c)
                      ELSE missing_ignoring_collected(c)

\* a faulty variant of cmp: without its last key
cmp_without_name(mode, self, other) ==
    then_with(
        reverse(total_cmp(Missing(mode, self) * self.metadata.percent_in_decks,
                          Missing(mode, other) * other.metadata.percent_in_decks)),
        then_with(
            reverse(total_cmp(self.metadata.percent_in_decks,
                              other.metadata.percent_in_decks)),
            option_slice_cmp(colors_of(self.card), colors_of(other.card))))
\* ChecklistCard::cmp
cmp(mode, self, other) ==
    then_with(
        reverse(total_cmp(Missing(mode, self) * self.metadata.percent_in_decks,
                          Missing(mode, other) * other.metadata.percent_in_decks)),
        then_with(
            reverse(total_cmp(self.metadata.percent_in_decks,
                              other.metadata.percent_in_decks)),
            then_with(
                option_slice_cmp(colors_of(self.card), colors_of(other.card)),
                str_cmp(self.card.name, other.card.name))))

cmp_using_collected(self, other) == cmp("using", self, other)
cmp_ignoring_collected(self, other) == cmp("ignoring", self, other)

\* slice::sort_by, a stable sort: each element goes behind the elements of
\* the sorted front that are not Greater than it
RECURSIVE InsertBy(_, _, _)
InsertBy(mode, sorted, e) ==
    IF sorted = <<>> THEN <<e>>
    ELSE LET n == Len(sorted)
         IN  IF cmp(mode, sorted[n], e) = "Greater"
                THEN Append(InsertBy(mode, SubSeq(sorted, 1, n - 1), e), sorted[n])
                ELSE Append(sorted, e)
\* a faulty variant of SortBy: the entries stay as they were collected
KeptAsCollected(mode, seq) == seq
RECURSIVE SortBy(_, _)
SortBy(mode, seq) ==
    IF seq = <<>> THEN <<>>
    ELSE LET n == Len(seq)
         IN  InsertBy(mode, SortBy(mode, SubSeq(seq, 1, n - 1)), seq[n])

(***************************************************************************)
(* checklist::Checklist.                                                   *)
(***************************************************************************)
Contains(line, word) == \E i \in 1..Len(line) : line[i] = word

\* deckbuilder::is_basic_land: the five names
BasicNames == {"Plains", "Island", "Swamp", "Mountain", "Forest"}
is_basic_land(name) == name \in BasicNames

\* faulty variants of the filter: one keeps every card, one filters by name
SurvivesFilterKeepingAll(card) == TRUE
SurvivesFilterByName(card) == ~is_basic_land(card.name)
\* the filter of Checklist::new
SurvivesFilter(card) ==
    card.type_line = None \/ ~Contains(card.type_line[1], "Basic")

RECURSIVE Filtered(_)
Filtered(rows) ==
    IF rows = <<>> THEN <<>>
    ELSE IF SurvivesFilter(Head(rows)[1])
            THEN <<Head(rows)>> \o Filtered(Tail(rows))
            ELSE Filtered(Tail(rows))

DEFAULT_METADATA == [num_copies |-> 4, percent_in_decks |-> 100]

\* the entry Checklist::new builds for one staple
EntryOf(row, coll) ==
    ChecklistCard(row[1], PrintsOf(row[1].id), CollectionGet(coll, row[1].name),
                  IF row[2] = None THEN DEFAULT_METADATA ELSE row[2][1])

\* Checklist::new succeeds: the entries arrive in the order in which the
\* buffered lookups complete, then are sorted
ChecklistNew ==
    /\ stage = "fetched"
    /\ LET rows == Filtered(staples)
       IN  \E f \in Perms(Len(rows)) :
              checklist' = SortBy("using",
                                  [i \in 1..Len(rows) |-> EntryOf(rows[f[i]], collection)])
    /\ stage' = "built"
    /\ UNCHANGED <<top8, goldfish, collection, staples, view, edits>>
    /\ UNCHANGED OutsidePipeline

\* a printings lookup fails: Checklist::new returns its error
ChecklistNewErr ==
    /\ stage = "fetched"
    /\ Filtered(staples) # <<>>
    /\ stage' = "failed"
    /\ UNCHANGED <<top8, goldfish, collection, staples, checklist, view, edits>>
    /\ UNCHANGED OutsidePipeline

\* the UI adds an owned version to an entry
AddVersion(index, code) ==
    /\ stage = "built"
    /\ edits > 0
    /\ index \in 1..Len(checklist)
    /\ edits' = edits - 1
    /\ checklist' = [checklist EXCEPT ![index] = add_version(@, code)]
    /\ UNCHANGED <<stage, top8, goldfish, collection, staples, view>>
    /\ UNCHANGED OutsidePipeline

\* the UI removes an owned version from an entry
RemoveVersion(index, code) ==
    /\ stage = "built"
    /\ edits > 0
    /\ index \in 1..Len(checklist)
    /\ edits' = edits - 1
    /\ checklist' = [checklist EXCEPT ![index] = remove_version(@, code)]
    /\ UNCHANGED <<stage, top8, goldfish, collection, staples, view>>
    /\ UNCHANGED OutsidePipeline

\* Checklist::ignoring_collection: references to the entries (their
\* indices), sorted
RECURSIVE InsertRefBy(_, _, _, _)
InsertRefBy(mode, list, sorted, i) ==
    IF sorted = <<>> THEN <<i>>
    ELSE LET n == Len(sorted)
         IN  IF cmp(mode, list[sorted[n]], list[i]) = "Greater"
                THEN Append(InsertRefBy(mode, list, SubSeq(sorted, 1, n - 1), i), sorted[n])
                ELSE Append(sorted, i)
RECURSIVE SortRefsBy(_, _, _)
SortRefsBy(mode, list, n) ==
    IF n = 0 THEN <<>>
    ELSE InsertRefBy(mode, list, SortRefsBy(mode, list, n - 1), n)

ignoring_collection(list) == SortRefsBy("ignoring", list, Len(list))

IgnoringCollection ==
    /\ stage = "built"
    /\ view' = Some(ignoring_collection(checklist))
    /\ UNCHANGED <<stage, top8, goldfish, collection, staples, checklist, edits>>
    /\ UNCHANGED OutsidePipeline

\* the set codes add_version and remove_version are called with
Codes == {"m21", "isd"}

PipelineNext ==
    \/ StaplesFetch
    \/ ChecklistNew
    \/ ChecklistNewErr
    \/ \E index \in 1..Len(checklist), code \in Codes : AddVersion(index, code)
    \/ \E index \in 1..Len(checklist), code \in Codes : RemoveVersion(index, code)
    \/ IgnoringCollection

\* what the scrapers can return: rows for three cards, some of them twice
ScrapedRows ==
    {Row(Opt, Some(60), None), Row(Opt, Some(95), None),
     Row(Delver, Some(95), Some(2)), Row(Delver, None, None),
     Row(Forest, Some(60), None)}
SeqsUpTo(S, n) == UNION {[1..k -> S] : k \in 0..n}

\* the collections main() can load
Collections ==
    {EmptyMap,
     [name \in {"Opt", "Delver of Secrets"} |->
         IF name = "Opt" THEN <<"m21", "xln", "m21">> ELSE <<"isd">>]}

PipelineStart ==
    /\ stage = "scraped"
    /\ top8 \in SeqsUpTo(ScrapedRows, MaxRows)
    /\ goldfish \in SeqsUpTo(ScrapedRows, MaxRows - Len(top8))
    /\ collection \in Collections
    /\ staples = <<>>
    /\ checklist = <<>>
    /\ view = None
    /\ edits = MaxEdits

\* rows of the two boards of mtgtop8: a card can be in both with one percent
\* and two copy counts
BoardRows ==
    {Row(Opt, Some(95), Some(4)), Row(Opt, Some(95), Some(2)),
     Row(Opt, Some(60), Some(3)), Row(Delver, Some(95), Some(2))}

\* both scrapers have answered, the rows in the order in which their
\* lookups completed
MergeStart ==
    /\ stage = "scraped"
    /\ top8 \in SeqsUpTo(BoardRows, MaxRows)
    /\ goldfish \in SeqsUpTo(BoardRows, MaxRows - Len(top8))
    /\ collection = EmptyMap
    /\ staples = <<>>
    /\ checklist = <<>>
    /\ view = None
    /\ edits = 0

\* staples among which some are basic lands by name, some by type line
BasicsRows ==
    {Row(Opt, Some(95), None), Row(Forest, Some(60), None),
     Row(UntypedForest, Some(60), None), Row(SnowForest, Some(20), Some(3))}

BasicsStart ==
    /\ stage = "scraped"
    /\ top8 \in SeqsUpTo(BasicsRows, MaxRows)
    /\ goldfish = <<>>
    /\ collection \in Collections
    /\ staples = <<>>
    /\ checklist = <<>>
    /\ view = None
    /\ edits = MaxEdits

PipelineIdle ==
    /\ stage = "idle"
    /\ top8 = <<>>
    /\ goldfish = <<>>
    /\ collection = EmptyMap
    /\ staples = <<>>
    /\ checklist = <<>>
    /\ view = None
    /\ edits = 0

(***************************************************************************)
(* goldfish::fetch, mtgtop8::fetch and the join of staples::fetch.         *)
(***************************************************************************)
\* goldfish::urls_from_format: the three category pages
Categories == {"creatures", "spells", "lands"}

\* what a category URL can answer: no answer (the request fails), a page
\* without a table, or a page with a table; rows are the rows of the table
\* and failing says that the lookup of one of its cards fails
HttpError == [kind |-> "http_error", rows |-> <<>>, failing |-> FALSE]
NoTable == [kind |-> "no_table", rows |-> <<>>, failing |-> FALSE]
Table(rows, failing) == [kind |-> "table", rows |-> rows, failing |-> failing]
Pages(cat) ==
    CASE cat = "creatures" ->
            {HttpError, NoTable,
             Table(<<Row(Delver, Some(95), Some(2)), Row(Opt, Some(95), None)>>,
                   FALSE)}
      [] cat = "spells" ->
            {NoTable, Table(<<>>, FALSE),
             Table(<<Row(Opt, Some(60), None)>>, FALSE),
             Table(<<Row(Delver, None, None)>>, TRUE)}
      [] cat = "lands" ->
            {HttpError, NoTable, Table(<<Row(Forest, Some(60), None)>>, FALSE)}

\* a faulty variant of ScrapeFails: a page without a table is an error
ScrapeFailsWithoutTable(page) == page.kind # "table" \/ page.failing
\* goldfish::scrape(url) returns Err, or its rows hold an Err
ScrapeFails(page) == page.kind = "http_error" \/ page.failing

RECURSIVE Flatten(_)
Flatten(tables) ==
    IF tables = <<>> THEN <<>> ELSE Head(tables) \o Flatten(Tail(tables))

ScrapedCategories == {scraped[i][1] : i \in 1..Len(scraped)}

\* one category is scraped without error: its rows, in the order in which
\* their lookups complete, are the next the stream yields; after the third
\* category try_collect returns the rows
ScrapeOk(cat) ==
    /\ stage = "scraping"
    /\ goldfishTask = "running"
    /\ cat \in Categories \ ScrapedCategories
    /\ ~ScrapeFails(pages[cat])
    /\ \E f \in Perms(Len(pages[cat].rows)) :
           scraped' = Append(scraped, <<cat, Permuted(pages[cat].rows, f)>>)
    /\ IF ScrapedCategories \cup {cat} = Categories
          THEN /\ goldfishTask' = "ok"
               /\ goldfish' = Flatten([i \in 1..Len(scraped') |-> scraped'[i][2]])
          ELSE UNCHANGED <<goldfishTask, goldfish>>
    /\ UNCHANGED <<pages, top8Task>>
    /\ UNCHANGED <<stage, top8, collection, staples, checklist, view, edits>>
    /\ UNCHANGED OutsideJoin

\* one category is scraped with an error: try_collect returns it and drops
\* the scrapes still running
ScrapeErr(cat) ==
    /\ stage = "scraping"
    /\ goldfishTask = "running"
    /\ cat \in Categories \ ScrapedCategories
    /\ ScrapeFails(pages[cat])
    /\ goldfishTask' = "err"
    /\ UNCHANGED <<pages, scraped, top8Task>>
    /\ UNCHANGED <<stage, top8, goldfish, collection, staples, checklist, view,
                   edits>>
    /\ UNCHANGED OutsideJoin

\* what mtgtop8::fetch can return
Top8Rows == SeqsUpTo(ScrapedRows, 1)

\* the spawned task ends: mtgtop8::fetch returns its rows or an error, or
\* panics (next_tuple().unwrap())
Top8Ends(outcome, rows) ==
    /\ stage = "scraping"
    /\ top8Task = "running"
    /\ top8Task' = outcome
    /\ top8' = IF outcome = "ok" THEN rows ELSE <<>>
    /\ UNCHANGED <<pages, scraped, goldfishTask>>
    /\ UNCHANGED <<stage, goldfish, collection, staples, checklist, view, edits>>
    /\ UNCHANGED OutsideJoin

Finished(task) == task \in {"ok", "err"}

\* try_join!(..)? : the join handle gives a JoinError, which `?` returns
JoinErr ==
    /\ stage = "scraping"
    /\ top8Task = "panicked"
    /\ stage' = "fetch_err"
    /\ UNCHANGED jvars
    /\ UNCHANGED <<top8, goldfish, collection, staples, checklist, view, edits>>
    /\ UNCHANGED OutsideJoin

\* try_join!(..)? gives the two results once both futures have completed;
\* (top8.unwrap(), goldfish.unwrap()) gives the rows of both
JoinOk ==
    /\ stage = "scraping"
    /\ top8Task = "ok"
    /\ goldfishTask = "ok"
    /\ stage' = "scraped"
    /\ UNCHANGED jvars
    /\ UNCHANGED <<top8, goldfish, collection, staples, checklist, view, edits>>
    /\ UNCHANGED OutsideJoin

\* try_join!(..)? gives the two results once both futures have completed;
\* (top8.unwrap(), goldfish.unwrap()) panics on the Err of a scraper
JoinUnwrapPanics ==
    /\ stage = "scraping"
    /\ Finished(top8Task) /\ Finished(goldfishTask)
    /\ top8Task = "err" \/ goldfishTask = "err"
    /\ stage' = "panicked"
    /\ UNCHANGED jvars
    /\ UNCHANGED <<top8, goldfish, collection, staples, checklist, view, edits>>
    /\ UNCHANGED OutsideJoin

JoinNext ==
    \/ \E cat \in Categories : ScrapeOk(cat)
    \/ \E cat \in Categories : ScrapeErr(cat)
    \/ \E rows \in Top8Rows : Top8Ends("ok", rows)
    \/ Top8Ends("err", <<>>)
    \/ Top8Ends("panicked", <<>>)
    \/ JoinErr
    \/ JoinOk
    \/ JoinUnwrapPanics
    \/ StaplesFetch

JoinStart ==
    /\ stage = "scraping"
    /\ top8 = <<>>
    /\ goldfish = <<>>
    /\ collection = EmptyMap
    /\ staples = <<>>
    /\ checklist = <<>>
    /\ view = None
    /\ edits = 0
    /\ pages \in {p \in [Categories -> UNION {Pages(cat) : cat \in Categories}] :
                      \A cat \in Categories : p[cat] \in Pages(cat)}
    /\ scraped = <<>>
    /\ goldfishTask = "running"
    /\ top8Task = "running"

JoinIdle ==
    /\ pages = <<>>
    /\ scraped = <<>>
    /\ goldfishTask = "idle"
    /\ top8Task = "idle"

(***************************************************************************)
(* collection::{load, store, add_to_collection, del_from_collection} and   *)
(* the two submit handlers of ui::collection_view.                         *)
(***************************************************************************)
\* the set codes of the printings above
SetCodes == {"m21", "xln", "mh2", "isd", "mid"}

\* a task spawned by background(): what it was asked to do, where it is,
\* and the map it holds
Task(op, card, code) == [op |-> op, card |-> card, code |-> code,
                         pc |-> "load", local |-> EmptyMap]

\* the body of add_to_collection between load and store
AddModify(coll, card, new_version) ==
    LET key == trimming_double_faced(card)
    IN  Put(coll, key, IF key \in DOMAIN coll THEN Append(coll[key], new_version)
                                              ELSE <<new_version>>)

\* del_from_collection stores only if it removed something
DelStores(coll, card, to_del) ==
    LET key == trimming_double_faced(card)
    IN  key \in DOMAIN coll /\ \E i \in 1..Len(coll[key]) : coll[key][i] = to_del

DelModify(coll, card, to_del) ==
    LET key == trimming_double_faced(card)
    IN  [coll EXCEPT ![key] = RemoveFirst(@, to_del)]

\* the "Add" dialog's on_submit: spawn add_to_collection, add to the entry
UiAdd(index, set) ==
    /\ stage = "ui"
    /\ edits > 0
    /\ index \in 1..Len(checklist)
    /\ \E i \in 1..Len(checklist[index].printings) : checklist[index].printings[i] = set
    /\ edits' = edits - 1
    /\ tasks' = Append(tasks, Task("add", checklist[index].card.name, set))
    /\ checklist' = [checklist EXCEPT ![index] = add_version(@, set)]
    /\ UNCHANGED <<disk, stage, top8, goldfish, collection, staples, view>>
    /\ UNCHANGED OutsideCollection

\* the versions view's on_submit: spawn del_from_collection, remove from
\* the entry
UiDel(index, item) ==
    /\ stage = "ui"
    /\ edits > 0
    /\ index \in 1..Len(checklist)
    /\ \E i \in 1..Len(checklist[index].owned_versions) :
          checklist[index].owned_versions[i] = item
    /\ edits' = edits - 1
    /\ tasks' = Append(tasks, Task("del", checklist[index].card.name, item))
    /\ checklist' = [checklist EXCEPT ![index] = remove_version(@, item)]
    /\ UNCHANGED <<disk, stage, top8, goldfish, collection, staples, view>>
    /\ UNCHANGED OutsideCollection

\* load() of a task, and the change it makes to the map it read; reading a
\* file another task has created and not yet written panics in unwrap()
TaskLoad(t) ==
    /\ t \in 1..Len(tasks)
    /\ tasks[t].pc = "load"
    /\ disk.state # "absent"
    /\ IF ~Decodes(disk)
          THEN tasks' = [tasks EXCEPT ![t].pc = "panicked"]
          ELSE LET coll == from_slice(disk)
                   card == tasks[t].card
                   code == tasks[t].code
               IN  IF tasks[t].op = "add"
                      THEN tasks' = [tasks EXCEPT ![t].pc = "create",
                                                  ![t].local = AddModify(coll, card, code)]
                      ELSE IF DelStores(coll, card, code)
                              THEN tasks' = [tasks EXCEPT
                                               ![t].pc = "create",
                                               ![t].local = DelModify(coll, card, code)]
                              ELSE tasks' = [tasks EXCEPT ![t].pc = "done",
                                                          ![t].local = coll]
    /\ UNCHANGED <<disk, pvars>>
    /\ UNCHANGED OutsideCollection

\* store(): File::create truncates the file
TaskCreate(t) ==
    /\ t \in 1..Len(tasks)
    /\ tasks[t].pc = "create"
    /\ disk' = ZeroByteFile
    /\ tasks' = [tasks EXCEPT ![t].pc = "write"]
    /\ UNCHANGED pvars
    /\ UNCHANGED OutsideCollection

\* store(): write_all
TaskWrite(t) ==
    /\ t \in 1..Len(tasks)
    /\ tasks[t].pc = "write"
    /\ disk' = JsonFile(tasks[t].local)
    /\ tasks' = [tasks EXCEPT ![t].pc = "done"]
    /\ UNCHANGED pvars
    /\ UNCHANGED OutsideCollection

CollectionNext ==
    \/ \E index \in 1..Len(checklist), set \in SetCodes : UiAdd(index, set)
    \/ \E index \in 1..Len(checklist), item \in SetCodes : UiDel(index, item)
    \/ \E t \in 1..Len(tasks) : TaskLoad(t)
    \/ \E t \in 1..Len(tasks) : TaskCreate(t)
    \/ \E t \in 1..Len(tasks) : TaskWrite(t)

\* the staples of the session the UI runs on
UiStaples == <<Row(Opt, Some(95), None), Row(Delver, Some(60), Some(2))>>

\* main() has loaded the collection from the file and built the checklist
CollectionStart ==
    /\ stage = "ui"
    /\ top8 = <<>>
    /\ goldfish = <<>>
    /\ collection \in Collections
    /\ staples = UiStaples
    /\ checklist = SortBy("using", [i \in 1..Len(UiStaples) |->
                                       EntryOf(UiStaples[i], collection)])
    /\ view = None
    /\ edits = MaxEdits
    /\ disk = JsonFile(collection)
    /\ tasks = <<>>

CollectionIdle ==
    /\ disk = AbsentFile
    /\ tasks = <<>>

(***************************************************************************)
(* ui::stats::calculate.                                                   *)
(***************************************************************************)
WUBRG == <<White, Blue, Black, Red, Green>>

\* u8::trailing_zeros and u8::trailing_ones
RECURSIVE trailing_zeros(_)
trailing_zeros(x) ==
    IF x = 0 THEN 8
    ELSE IF x % 2 = 0 THEN 1 + trailing_zeros(x \div 2) ELSE 0
RECURSIVE trailing_ones(_)
trailing_ones(x) == IF x % 2 = 1 THEN 1 + trailing_ones(x \div 2) ELSE 0

COLORLESS == 5
MULTICOLOR == 6
LAND == 7

\* the thresholds of counters_full
MonoFull == 20
ColorlessFull == 20
MulticolorFull == 10

\* counters[index] of the program is counters[index + 1] here
counters_full(cs) ==
    /\ \A i \in 1..Len(WUBRG) : cs[trailing_zeros(WUBRG[i]) + 1] >= MonoFull
    /\ cs[COLORLESS + 1] >= ColorlessFull
    /\ cs[MULTICOLOR + 1] >= MulticolorFull

IsLand(card) == card.type_line # None /\ Contains(card.type_line[1], "Land")

\* a variant of BucketOf: a mono-color card increments the counter that
\* counters_full reads for its color, so that the scan can halt
BucketOfByZeros(card) ==
    IF IsLand(card) THEN LAND
    ELSE IF card.colors = None \/ card.colors[1] = <<>> THEN COLORLESS
    ELSE IF Len(card.colors[1]) = 1 THEN trailing_zeros(card.colors[1][1])
    ELSE MULTICOLOR
\* the index the scan increments for a card
BucketOf(card) ==
    IF IsLand(card) THEN LAND
    ELSE IF card.colors = None \/ card.colors[1] = <<>> THEN COLORLESS
    ELSE IF Len(card.colors[1]) = 1 THEN trailing_ones(card.colors[1][1])
    ELSE MULTICOLOR

\* one turn of the while loop: the next entry of checklist.iter()
ScanStep ==
    /\ stage = "stats"
    /\ stats = None
    /\ ~counters_full(counters)
    /\ Len(top_cards) < Len(checklist)
    /\ LET next == Len(top_cards) + 1
       IN  /\ counters' = [counters EXCEPT ![BucketOf(checklist[next].card) + 1] = @ + 1]
           /\ top_cards' = Append(top_cards, next)
    /\ UNCHANGED <<ranked, stats>>
    /\ UNCHANGED OutsideStats

\* the predicates of the summaries
Summaries == {"all", "white", "blue", "black", "red", "green",
              "colorless", "multicolor", "lands"}
ColorOf(tag) ==
    CASE tag = "white" -> White [] tag = "blue" -> Blue [] tag = "black" -> Black
      [] tag = "red" -> Red [] tag = "green" -> Green
Pred(tag, c) ==
    CASE tag = "all" -> TRUE
      [] tag = "colorless" -> c.card.colors = None \/ c.card.colors[1] = <<>>
      [] tag = "multicolor" -> c.card.colors # None /\ Len(c.card.colors[1]) > 1
      [] tag = "lands" -> IsLand(c.card)
      [] OTHER -> c.card.colors = Some(<<ColorOf(tag)>>)

\* a faulty variant of relevant_owned: every owned version counts
relevant_owned_all(c) == Len(c.owned_versions)
\* u16::min(c.owned_versions().len() as u16, num_copies)
relevant_owned(c) ==
    IF Len(c.owned_versions) <= c.metadata.num_copies
       THEN Len(c.owned_versions)
       ELSE c.metadata.num_copies

\* .filter(|x| f(x)).take(count): the positions of cards that pass
Taken(list, refs, count, tag) ==
    {p \in 1..Len(refs) :
        /\ Pred(tag, list[refs[p]])
        /\ Cardinality({q \in 1..(p - 1) : Pred(tag, list[refs[q]])}) < count}

\* .fold(Progress::default(), ..) over the positions lo..hi that pass (the
\* sums are far below the width of u16; the range is folded by halves)
RECURSIVE Fold(_, _, _, _, _)
Fold(list, refs, taken, lo, hi) ==
    IF lo > hi THEN [owned |-> 0, total |-> 0]
    ELSE IF lo = hi
       THEN IF lo \in taken
               THEN [owned |-> relevant_owned(list[refs[lo]]),
                     total |-> list[refs[lo]].metadata.num_copies]
               ELSE [owned |-> 0, total |-> 0]
       ELSE LET mid == (lo + hi) \div 2
            IN  [owned |-> Fold(list, refs, taken, lo, mid).owned
                              + Fold(list, refs, taken, mid + 1, hi).owned,
                 total |-> Fold(list, refs, taken, lo, mid).total
                              + Fold(list, refs, taken, mid + 1, hi).total]

\* top(cards, count, f); cards is given by the checklist and the
\* references into it
top(list, refs, count, tag) ==
    CHOOSE progress \in
        {Fold(list, refs, taken, 1, Len(refs)) :
            taken \in {Taken(list, refs, count, tag)}} : TRUE

\* slice::sort_by on a long slice, by what a stable sort returns: an
\* element stands behind the elements that are Less than it and behind the
\* elements before it that are Equal to it
Before(mode, list, j, i) ==
    LET o == cmp(mode, list[j], list[i])
    IN  o = "Less" \/ (o = "Equal" /\ j < i)
\* (place is bound as an element of a set so that it is computed once)
StableSortRefs(mode, list, n) ==
    CHOOSE sorted \in
        {[r \in 1..n |-> CHOOSE i \in 1..n : place[i] = r] :
            place \in {[i \in 1..n |->
                          1 + Cardinality({j \in 1..n : Before(mode, list, j, i)})]}} :
        TRUE

\* top_cards.sort_by(|a, b| a.cmp_ignoring_collected(b)): the scanned
\* entries are the first n of the checklist
SortedTopCards(list, n) == StableSortRefs("ignoring", list, n)

\* the Stats calculate returns
StatsOf(list, cards) ==
    [top_20 |-> top(list, cards, 20, "all"),
     top_50 |-> top(list, cards, 50, "all"),
     top_150 |-> top(list, cards, 150, "all"),
     top_20_by_color |->
         <<top(list, cards, 20, "white"), top(list, cards, 20, "blue"),
           top(list, cards, 20, "black"), top(list, cards, 20, "red"),
           top(list, cards, 20, "green")>>,
     top_10_colorless |-> top(list, cards, 10, "colorless"),
     top_20_multicolor |-> top(list, cards, 20, "multicolor"),
     top_10_lands |-> top(list, cards, 10, "lands")]

\* the loop is left, by counters_full or at the end of the checklist: the
\* scanned entries are sorted and summarized
Summarize ==
    /\ stage = "stats"
    /\ stats = None
    /\ counters_full(counters) \/ Len(top_cards) = Len(checklist)
    /\ ranked' = SortedTopCards(checklist, Len(top_cards))
    /\ stats' = Some(StatsOf(checklist, ranked'))
    /\ UNCHANGED <<counters, top_cards>>
    /\ UNCHANGED OutsideStats

StatsNext == ScanStep \/ Summarize

\* the cards of a long checklist, by position: two of each color, two
\* colorless, a multicolor and a land in every 14
StatColors(i) ==
    LET k == i % 14
    IN  CASE k \in {1, 8} -> Some(<<White>>)
          [] k \in {2, 9} -> Some(<<Blue>>)
          [] k \in {3, 10} -> Some(<<Black>>)
          [] k \in {4, 11} -> Some(<<Red>>)
          [] k \in {5, 12} -> Some(<<Green>>)
          [] k = 6 -> None
          [] k = 13 -> Some(<<>>)
          [] k = 7 -> Some(<<White, Blue>>)
          [] k = 0 -> IF i % 28 = 0 THEN Some(<<Green>>) ELSE Some(<<>>)
StatCard(i) ==
    [id |-> StatName(i), name |-> StatName(i), card_faces |-> None,
     colors |-> StatColors(i),
     type_line |-> IF i % 14 = 0 THEN Some(<<"Land">>) ELSE Some(<<"Creature">>)]

\* the entry of a card: cards further down are played in fewer decks, and
\* an owner has up to 5 versions of a card
StatEntry(i, owner) ==
    ChecklistCard(StatCard(i), <<"m21">>,
                  IF owner THEN [j \in 1..(i % 6) |-> "m21"] ELSE <<>>,
                  [percent_in_decks |-> 100 - (i \div 3), num_copies |-> 1 + (i % 4)])

\* the checklist Checklist::new builds of the first n entries: it is sorted
\* by cmp_using_collected
ChecklistOf(n, owner) ==
    CHOOSE sorted \in
        UNION {{[r \in 1..n |-> entries[order[r]]] :
                   order \in {StableSortRefs("using", entries, n)}} :
               entries \in {[i \in 1..n |-> StatEntry(i, owner)]}} :
        TRUE

\* main() has built the checklist
StatsStart ==
    /\ stage = "stats"
    /\ top8 = <<>>
    /\ goldfish = <<>>
    /\ collection = EmptyMap
    /\ staples = <<>>
    /\ \E n \in (1..ShortDeck) \cup {LongDeck}, owner \in BOOLEAN :
          checklist = ChecklistOf(n, owner)
    /\ view = None
    /\ edits = 0
    /\ counters = [i \in 1..(LAND + 1) |-> 0]
    /\ top_cards = <<>>
    /\ ranked = <<>>
    /\ stats = None

StatsIdle ==
    /\ counters = <<>>
    /\ top_cards = <<>>
    /\ ranked = <<>>
    /\ stats = None

(***************************************************************************)
(* The comparator on two entries.                                          *)
(***************************************************************************)
ComparedCards == {Opt, Delver, FireIce}
ComparedPercents == {50, 80, 100}
ComparedCopies == {2, 4}
ComparedOwned == {<<>>, <<"m21">>, <<"m21", "xln", "m21", "xln">>}
     \cup {[i \in 1..MaxOwned |-> "m21"]}

ComparedEntries ==
    {ChecklistCard(c, PrintsOf(c.id), o, [percent_in_decks |-> p, num_copies |-> n]) :
        c \in ComparedCards, o \in ComparedOwned,
        p \in ComparedPercents, n \in ComparedCopies}

Compare ==
    /\ usingOrd = None
    /\ usingOrd' = Some(cmp_using_collected(lhs, rhs))
    /\ ignoringOrd' = Some(cmp_ignoring_collected(lhs, rhs))
    /\ UNCHANGED <<lhs, rhs>>
    /\ UNCHANGED OutsideComparator

\* the same two entries the other way round
Swap ==
    /\ usingOrd # None
    /\ lhs' = rhs
    /\ rhs' = lhs
    /\ usingOrd' = Some(cmp_using_collected(rhs, lhs))
    /\ ignoringOrd' = Some(cmp_ignoring_collected(rhs, lhs))
    /\ UNCHANGED OutsideComparator

ComparatorNext == Compare \/ Swap

ComparatorStart ==
    /\ lhs \in ComparedEntries
    /\ rhs \in ComparedEntries
    /\ usingOrd = None
    /\ ignoringOrd = None

ComparatorIdle ==
    /\ lhs = ChecklistCard(Opt, <<>>, <<>>, DEFAULT_METADATA)
    /\ rhs = ChecklistCard(Opt, <<>>, <<>>, DEFAULT_METADATA)
    /\ usingOrd = None
    /\ ignoringOrd = None

(***************************************************************************)
(* card_name on the characters of a name.                                  *)
(***************************************************************************)
Lorien ==
    <<"L", "o", "r", "i", "e", "n", " ", "R", "e", "v", "e", "a", "l", "e", "d">>
LorienAccented ==
    <<"L", "ó", "r", "i", "e", "n", " ", "R", "e", "v", "e", "a", "l", "e", "d">>
Troll ==
    <<"T", "r", "o", "l", "l", " ", "o", "f", " ",
      "K", "h", "a", "z", "a", "d", "-", "d", "u", "m">>
TrollAccented ==
    <<"T", "r", "o", "l", "l", " ", "o", "f", " ",
      "K", "h", "a", "z", "a", "d", "-", "d", "û", "m">>
FireIceName == <<"F", "i", "r", "e", " ", "/", "/", " ", "I", "c", "e">>
FireName == <<"F", "i", "r", "e">>
OptName == <<"O", "p", "t">>

\* card_name::fix_lotr_accented_cards
FixLotrAccentedCards(card) ==
    CASE card = Lorien -> Some(LorienAccented)
      [] card = Troll -> Some(TrollAccented)
      [] OTHER -> None

\* a faulty variant of Trim: nothing is trimmed
NoTrim(s) == s
\* str::trim
Trim(s) ==
    LET inked == {i \in 1..Len(s) : s[i] # " "}
    IN  IF inked = {} THEN <<>>
        ELSE SubSeq(s, CHOOSE i \in inked : \A j \in inked : i <= j,
                       CHOOSE i \in inked : \A j \in inked : i >= j)

\* card_name::trim_if_double_faced
TrimIfDoubleFaced(card) ==
    LET found == {idx \in 1..Len(card) : card[idx] = "/"}
    IN  IF found = {} THEN None
        ELSE LET idx == CHOOSE i \in found : \A j \in found : i <= j
             IN  Some(Trim(SubSeq(card, 1, idx - 1)))

\* <&CName as From<&str>>::from
CNameFrom(value) ==
    IF FixLotrAccentedCards(value) # None
       THEN FixLotrAccentedCards(value)[1]
       ELSE value

\* CName::trimming_double_faced
CNameTrimmingDoubleFaced(self) ==
    IF TrimIfDoubleFaced(self) # None THEN TrimIfDoubleFaced(self)[1] ELSE self

\* name.into()
FromStr ==
    /\ cname = None
    /\ cname' = Some(CNameFrom(raw))
    /\ UNCHANGED <<raw, trimmed>>
    /\ UNCHANGED OutsideNames

\* .trimming_double_faced()
TrimmingDoubleFaced ==
    /\ cname # None
    /\ trimmed = None
    /\ trimmed' = Some(CNameTrimmingDoubleFaced(cname[1]))
    /\ UNCHANGED <<raw, cname>>
    /\ UNCHANGED OutsideNames

NamesNext == FromStr \/ TrimmingDoubleFaced

\* the names: the ones above and every short name over three characters
Alphabet == {"a", " ", "/"}
Words ==
    SeqsUpTo(Alphabet, MaxName)
        \cup {Lorien, LorienAccented, Troll, TrollAccented, FireIceName,
              FireName, OptName}

NamesStart ==
    /\ raw \in Words
    /\ cname = None
    /\ trimmed = None

NamesIdle ==
    /\ raw = <<>>
    /\ cname = None
    /\ trimmed = None

(***************************************************************************)
(* Numbers in text: str::parse on the characters of a cell or a token.     *)
(***************************************************************************)
Digits == {"0", "1", "2", "3", "4", "5", "6", "7", "8", "9"}
DigitValue(c) == CHOOSE n \in 0..9 : ToString(n) = c
AllDigits(t) == \A i \in 1..Len(t) : t[i] \in Digits
RECURSIVE Decimal(_)
Decimal(t) ==
    IF t = <<>> THEN 0
    ELSE 10 * Decimal(SubSeq(t, 1, Len(t) - 1)) + DigitValue(t[Len(t)])

\* the text without a leading '+'
Unsigned(t) == IF t # <<>> /\ t[1] = "+" THEN Tail(t) ELSE t

\* <f32 as FromStr>::from_str on texts made of a sign, digits and points:
\* Some([whole, fraction]) with the integral part and whether the
\* fractional part is not zero, None for every other text
ParseF32(text) ==
    LET t == Unsigned(text)
        points == {i \in 1..Len(t) : t[i] = "."}
    IN  IF t = <<>> \/ Cardinality(points) > 1
             \/ (\E i \in 1..Len(t) : t[i] \notin Digits \cup {"."})
             \/ (\A j \in 1..Len(t) : t[j] \notin Digits)
           THEN None
        ELSE IF points = {} THEN Some([whole |-> Decimal(t), fraction |-> FALSE])
        ELSE LET p == CHOOSE i \in points : TRUE
             IN  Some([whole |-> Decimal(SubSeq(t, 1, p - 1)),
                       fraction |-> \E k \in (p + 1)..Len(t) : t[k] # "0"])

\* f32::ceil and  as u8  (the cast saturates)
CeilAsU8(v) ==
    LET c == IF v.fraction THEN v.whole + 1 ELSE v.whole
    IN  IF c > 255 THEN 255 ELSE c

\* str::trim_end_matches(c)
RECURSIVE TrimEndMatches(_, _)
TrimEndMatches(t, c) ==
    IF t # <<>> /\ t[Len(t)] = c
       THEN TrimEndMatches(SubSeq(t, 1, Len(t) - 1), c)
       ELSE t

\* str::split_whitespace().next(): the first run of characters that are
\* not blank, None when there is none
FirstToken(t) ==
    LET inked == {i \in 1..Len(t) : t[i] # " "}
    IN  IF inked = {} THEN None
        ELSE LET first == CHOOSE i \in inked : \A j \in inked : i <= j
                 blanks == {i \in first..Len(t) : t[i] = " "}
                 last == IF blanks = {} THEN Len(t)
                         ELSE (CHOOSE i \in blanks : \A j \in blanks : i <= j) - 1
             IN  Some(SubSeq(t, first, last))

(***************************************************************************)
(* The cells of a scraped row and the metadata made of them.               *)
(***************************************************************************)
\* the percent of a parsed f32 (the percent cells of the model are whole)
Whole(parsed) == IF parsed = None THEN None ELSE Some(parsed[1].whole)
Ceiled(parsed) == IF parsed = None THEN None ELSE Some(CeilAsU8(parsed[1]))

\* goldfish::scrape: e.text().map(str::trim).filter(|s| !s.is_empty()).skip(1),
\* after the name: the texts of a row that are not blank, trimmed, in order
GoldfishValues(c) ==
    LET texts == (IF c.percent = None THEN <<>> ELSE <<Trim(c.percent[1])>>)
                 \o (IF c.copies = None THEN <<>> ELSE <<Trim(c.copies[1])>>)
        Inked(t) == t # <<>>
    IN  SelectSeq(texts, Inked)
\* Iterator::next, the n-th time
NextValue(values, n) == IF n <= Len(values) THEN Some(values[n]) ELSE None

\* goldfish::scrape: values.next().and_then(|s| s.trim_end_matches('%').parse().ok())
GoldfishPercent(cell) ==
    IF cell = None THEN None ELSE Whole(ParseF32(TrimEndMatches(cell[1], "%")))
\* goldfish::scrape: .and_then(|s| s.parse::<f32>().ok()).map(|c| c.ceil() as u8)
GoldfishCopies(cell) ==
    IF cell = None THEN None ELSE Ceiled(ParseF32(cell[1]))

\* mtgtop8::fetch: text_to_f
text_to_f(elem) ==
    IF elem = None \/ FirstToken(elem[1]) = None THEN None
    ELSE ParseF32(FirstToken(elem[1])[1])

GoldfishRow ==
    /\ cells.site = "goldfish"
    /\ rowMeta = None
    /\ rowMeta' = Some(Some(MetadataNew(
                         GoldfishPercent(NextValue(GoldfishValues(cells), 1)),
                         GoldfishCopies(NextValue(GoldfishValues(cells), 2)))))
    /\ UNCHANGED <<cells, entryMeta>>
    /\ UNCHANGED OutsideCells

Top8Row ==
    /\ cells.site = "mtgtop8"
    /\ rowMeta = None
    /\ rowMeta' = Some(Some(MetadataNew(Whole(text_to_f(cells.percent)),
                                        Ceiled(text_to_f(cells.copies)))))
    /\ UNCHANGED <<cells, entryMeta>>
    /\ UNCHANGED OutsideCells

\* a staple that comes without metadata
BareStaple ==
    /\ cells.site = "none"
    /\ rowMeta = None
    /\ rowMeta' = Some(None)
    /\ UNCHANGED <<cells, entryMeta>>
    /\ UNCHANGED OutsideCells

\* Checklist::new on the staple
NewEntry ==
    /\ rowMeta # None
    /\ entryMeta = None
    /\ entryMeta' = Some(EntryOf(<<Opt, rowMeta[1]>>, EmptyMap).metadata)
    /\ UNCHANGED <<cells, rowMeta>>
    /\ UNCHANGED OutsideCells

CellsNext == GoldfishRow \/ Top8Row \/ BareStaple \/ NewEntry

\* the texts of the cells
PercentCells ==
    {<<"9", "5">>, <<"9", "5", "%">>, <<"6", "0", " ", "%">>, <<"1", ".", "0">>,
     <<"n", "/", "a">>, <<"%">>, <<>>}
CopiesCells ==
    {<<"4">>, <<"2", ".", "3">>, <<"3", "0", "0">>, <<".", "5">>,
     <<"1", ".", "0">>, <<" ", "7">>, <<"n", "/", "a">>, <<>>}
OptionOf(S) == {None} \cup {Some(x) : x \in S}
\* the rows whose percent the model can hold: the percents are whole
WholePercent(c) ==
    IF c.site # "goldfish" \/ GoldfishValues(c) = <<>> THEN TRUE
    ELSE LET read == ParseF32(TrimEndMatches(GoldfishValues(c)[1], "%"))
         IN  IF read = None THEN TRUE ELSE ~read[1].fraction

CellsStart ==
    /\ cells \in {c \in [site : {"goldfish", "mtgtop8"},
                         percent : OptionOf(PercentCells),
                         copies : OptionOf(CopiesCells)]
                        \cup {[site |-> "none", percent |-> None, copies |-> None]} :
                      WholePercent(c)}
    /\ rowMeta = None
    /\ entryMeta = None

CellsIdle ==
    /\ cells = <<>>
    /\ rowMeta = None
    /\ entryMeta = None

(***************************************************************************)
(* deckbuilder: Decklist and check.                                        *)
(***************************************************************************)
DeckWord == <<"D", "e", "c", "k">>
SideboardWord == <<"S", "i", "d", "e", "b", "o", "a", "r", "d">>
\* deckbuilder::is_basic_land on the characters of a name
BasicNameChars ==
    {<<"P", "l", "a", "i", "n", "s">>, <<"I", "s", "l", "a", "n", "d">>,
     <<"S", "w", "a", "m", "p">>, <<"M", "o", "u", "n", "t", "a", "i", "n">>,
     <<"F", "o", "r", "e", "s", "t">>}

\* a faulty variant of ParseU8: the number is not bounded by the width
ParseU8Wide(text) ==
    LET t == Unsigned(text)
    IN  IF t = <<>> \/ ~AllDigits(t) THEN None ELSE Some(Decimal(t))
\* <u8 as FromStr>::from_str
ParseU8(text) ==
    LET t == Unsigned(text)
    IN  IF t = <<>> \/ ~AllDigits(t) \/ Decimal(t) > 255
           THEN None
           ELSE Some(Decimal(t))

\* buf.find(|c: char| c.is_whitespace())
FindWhitespace(buf) ==
    LET blanks == {i \in 1..Len(buf) : buf[i] = " "}
    IN  IF blanks = {} THEN None
        ELSE Some(CHOOSE i \in blanks : \A j \in blanks : i <= j)

\* str::trim_start
RECURSIVE TrimStart(_)
TrimStart(t) == IF t # <<>> /\ t[1] = " " THEN TrimStart(Tail(t)) ELSE t

\* buf[0..end_count].trim_end_matches('x').parse::<u8>()
CountOf(buf) ==
    IF FindWhitespace(buf) = None THEN None
    ELSE ParseU8(TrimEndMatches(SubSeq(buf, 1, FindWhitespace(buf)[1] - 1), "x"))
\* buf[end_count..].trim_start()
NameOf(buf) == TrimStart(SubSeq(buf, FindWhitespace(buf)[1], Len(buf)))

\* matches!(buf, "" | "Deck" | "Sideboard")
Skipped(buf) == buf \in {<<>>, DeckWord, SideboardWord}

\* the line the loop is about to read, trimmed
NextBuf == Trim(deck[cursor + 1])
Reading == verdict = "reading" /\ cursor < Len(deck)

\* self.collection.get(name.into()).len() as u8
OwnedOf(name) ==
    LET k == CNameTrimmingDoubleFaced(CNameFrom(name))
    IN  IF k \in DOMAIN shelf THEN Len(shelf[k]) % 256 ELSE 0

\* Decklist::add, the count not overflowing
DecklistAdd(list, name, count) ==
    IF name \in DOMAIN list
       THEN [list EXCEPT ![name].count = (@ + count) % 256]
       ELSE Put(list, name,
                [owned |-> IF name \in BasicNameChars THEN count ELSE OwnedOf(name),
                 count |-> count])
\* v.count += count  overflows the u8
Overflows(list, name, count) ==
    name \in DOMAIN list /\ list[name].count + count > 255

\* the loop reads a line it skips
SkipLine ==
    /\ Reading
    /\ Skipped(NextBuf)
    /\ cursor' = cursor + 1
    /\ UNCHANGED <<deck, shelf, decklist, verdict, named>>
    /\ UNCHANGED OutsideDeck

\* the loop reads a line without a count: bail!
BadLine ==
    /\ Reading
    /\ ~Skipped(NextBuf)
    /\ CountOf(NextBuf) = None
    /\ cursor' = cursor + 1
    /\ verdict' = "err"
    /\ named' = Some(NextBuf)
    /\ UNCHANGED <<deck, shelf, decklist>>
    /\ UNCHANGED OutsideDeck

\* the loop reads a line with a count and a name: decklist.add
AddLine ==
    /\ Reading
    /\ ~Skipped(NextBuf)
    /\ CountOf(NextBuf) # None
    /\ ~Overflows(decklist, NameOf(NextBuf), CountOf(NextBuf)[1])
    /\ cursor' = cursor + 1
    /\ decklist' = DecklistAdd(decklist, NameOf(NextBuf), CountOf(NextBuf)[1])
    /\ UNCHANGED <<deck, shelf, verdict, named>>
    /\ UNCHANGED OutsideDeck

\* the same where the sum overflows, in a build that wraps
AddLineWraps ==
    /\ Reading
    /\ ~Skipped(NextBuf)
    /\ CountOf(NextBuf) # None
    /\ Overflows(decklist, NameOf(NextBuf), CountOf(NextBuf)[1])
    /\ cursor' = cursor + 1
    /\ decklist' = DecklistAdd(decklist, NameOf(NextBuf), CountOf(NextBuf)[1])
    /\ UNCHANGED <<deck, shelf, verdict, named>>
    /\ UNCHANGED OutsideDeck

\* the same where the sum overflows, in a build that checks overflow
AddLinePanics ==
    /\ Reading
    /\ ~Skipped(NextBuf)
    /\ CountOf(NextBuf) # None
    /\ Overflows(decklist, NameOf(NextBuf), CountOf(NextBuf)[1])
    /\ cursor' = cursor + 1
    /\ verdict' = "panicked"
    /\ UNCHANGED <<deck, shelf, decklist, named>>
    /\ UNCHANGED OutsideDeck

\* read_line returns 0: decklist.display()
Display ==
    /\ verdict = "reading"
    /\ cursor = Len(deck)
    /\ verdict' = "displayed"
    /\ UNCHANGED <<deck, shelf, cursor, decklist, named>>
    /\ UNCHANGED OutsideDeck

DeckNext ==
    SkipLine \/ BadLine \/ AddLine \/ AddLineWraps \/ AddLinePanics \/ Display

\* the lines of the decklist files
DeckLines ==
    {<<"4", " ", "O", "p", "t">>, <<"4", "x", " ", "O", "p", "t">>,
     <<"4", "x", "x", " ", "O", "p", "t">>, <<"+", "4", " ", "O", "p", "t">>,
     <<"x", " ", "O", "p", "t">>, <<"2", "5", "6", " ", "O", "p", "t">>,
     <<"2", "0", "0", " ", "O", "p", "t">>, <<"4">>, <<"4", "O", "p", "t">>,
     <<"O", "p", "t", " ", "4">>,
     <<" ", "2", " ", "F", "o", "r", "e", "s", "t", " ">>,
     <<"3", " ", "F", "o", "r", "e", "s", "t">>, <<>>,
     <<"D", "e", "c", "k">>, <<"S", "i", "d", "e", "b", "o", "a", "r", "d">>,
     <<" ", "D", "e", "c", "k", " ">>, <<"-", "1", " ", "O", "p", "t">>,
     <<"2", " ", " ", "F", "i", "r", "e", " ", "/", "/", " ", "I", "c", "e">>}

\* the collection: two versions of Opt, one of Fire // Ice
DeckShelf ==
    [name \in {OptName, FireName} |->
        IF name = OptName THEN <<"m21", "xln">> ELSE <<"mh2">>]

DeckStart ==
    /\ deck \in SeqsUpTo(DeckLines, MaxDeck)
    /\ shelf = DeckShelf
    /\ cursor = 0
    /\ decklist = EmptyMap
    /\ verdict = "reading"
    /\ named = None

DeckIdle ==
    /\ deck = <<>>
    /\ shelf = EmptyMap
    /\ cursor = 0
    /\ decklist = EmptyMap
    /\ verdict = "idle"
    /\ named = None

ResolverIdle ==
    /\ resolver = "card"
    /\ requests = {}
    /\ budget = 0
    /\ file = AbsentFile
    /\ loaded = FALSE
    /\ cache = EmptyMap
    /\ writeLocked = FALSE
    /\ permits = Permits
    /\ calls = <<>>
    /\ bytes = <<>>
    /\ fetched = <<>>
    /\ initial = EmptyMap
    /\ returned = {}
    /\ failed = 0
    /\ ioFailed = FALSE

(***************************************************************************)
(* The specifications.                                                     *)
(***************************************************************************)
\* one resolver instance, a few concurrent calls on two keys
Init ==
    ResolverStart(FALSE, MaxCalls)
        /\ PipelineIdle /\ ComparatorIdle /\ CollectionIdle /\ StatsIdle /\ NamesIdle /\ JoinIdle
        /\ CellsIdle /\ DeckIdle
Next == ResolverNext
Spec == Init /\ [][Next]_vars

\* one resolver, one key, more concurrent calls than the pool has permits
InitPermits ==
    ResolverStart(TRUE, Permits + ExtraCalls)
        /\ PipelineIdle /\ ComparatorIdle /\ CollectionIdle /\ StatsIdle /\ NamesIdle /\ JoinIdle
        /\ CellsIdle /\ DeckIdle
SpecPermits == InitPermits /\ [][Next]_vars
\* one resolver whose file holds one key, hits among contending misses
InitHits ==
    HitsStart
        /\ PipelineIdle /\ ComparatorIdle /\ CollectionIdle /\ StatsIdle /\ NamesIdle /\ JoinIdle
        /\ CellsIdle /\ DeckIdle
SpecHits == InitHits /\ [][Next]_vars
\* the same where the calls in flight are not left waiting for ever
SpecLive == InitPermits /\ [][Next]_vars /\ WF_vars(Progress)

\* one run of main(): merge, build, edit, re-sort
InitPipeline ==
    ResolverIdle /\ PipelineStart /\ ComparatorIdle /\ CollectionIdle /\ StatsIdle /\ NamesIdle /\ JoinIdle
        /\ CellsIdle /\ DeckIdle
SpecPipeline == InitPipeline /\ [][PipelineNext]_vars

\* the same pipeline on staples that hold basic lands
InitBasics ==
    ResolverIdle /\ BasicsStart /\ ComparatorIdle /\ CollectionIdle /\ StatsIdle /\ NamesIdle /\ JoinIdle
        /\ CellsIdle /\ DeckIdle
SpecBasics == InitBasics /\ [][PipelineNext]_vars

\* the comparator on every pair of entries
InitComparator ==
    ResolverIdle /\ PipelineIdle /\ ComparatorStart /\ CollectionIdle /\ StatsIdle /\ NamesIdle /\ JoinIdle
        /\ CellsIdle /\ DeckIdle
SpecComparator == InitComparator /\ [][ComparatorNext]_vars

\* the UI and its background tasks on the collection file
InitCollection == ResolverIdle /\ CollectionStart /\ ComparatorIdle /\ StatsIdle /\ NamesIdle /\ JoinIdle
        /\ CellsIdle /\ DeckIdle
SpecCollection == InitCollection /\ [][CollectionNext]_vars

\* the stats view is opened on a checklist
InitStats ==
    ResolverIdle /\ StatsStart /\ ComparatorIdle /\ CollectionIdle /\ NamesIdle /\ JoinIdle
        /\ CellsIdle /\ DeckIdle
SpecStats == InitStats /\ [][StatsNext]_vars

\* card_name on one name
InitNames ==
    ResolverIdle /\ PipelineIdle /\ ComparatorIdle /\ CollectionIdle
        /\ StatsIdle /\ NamesStart /\ JoinIdle /\ CellsIdle /\ DeckIdle
SpecNames == InitNames /\ [][NamesNext]_vars

\* one run of staples::fetch: the scrapers, the join, the merge
InitJoin ==
    ResolverIdle /\ JoinStart /\ ComparatorIdle /\ CollectionIdle /\ StatsIdle
        /\ NamesIdle /\ CellsIdle /\ DeckIdle
SpecJoin == InitJoin /\ [][JoinNext]_vars

\* staples::fetch from its sort on
InitMerge ==
    ResolverIdle /\ MergeStart /\ ComparatorIdle /\ CollectionIdle /\ StatsIdle
        /\ NamesIdle /\ JoinIdle /\ CellsIdle /\ DeckIdle
SpecMerge == InitMerge /\ [][StaplesFetch]_vars

\* one scraped row becomes the metadata of an entry
InitCells ==
    ResolverIdle /\ PipelineIdle /\ ComparatorIdle /\ CollectionIdle
        /\ StatsIdle /\ NamesIdle /\ JoinIdle /\ CellsStart /\ DeckIdle
SpecCells == InitCells /\ [][CellsNext]_vars

\* one run of deckbuilder::check
InitDeck ==
    ResolverIdle /\ PipelineIdle /\ ComparatorIdle /\ CollectionIdle
        /\ StatsIdle /\ NamesIdle /\ JoinIdle /\ CellsIdle /\ DeckStart
SpecDeck == InitDeck /\ [][DeckNext]_vars

(***************************************************************************)
(* Properties of the resolvers.                                            *)
(***************************************************************************)
OkValues(req) == {p[2] : p \in {q \in returned : q[1] = req}}
Resolved(req) == OkValues(req) # {}
Missed(req) == calls'[<<req, "acquire">>] = calls[<<req, "acquire">>] + 1
Quiet(req) == \A pc \in Pcs : At(req, pc) = 0

\* the expected map: what was loaded, plus every value returned,
\* each under the key the resolver stores it
StoredEntries == {<<InsertKey(resolver, p[1]), p[2]>> : p \in returned}
ExpectedMap ==
    [k \in DOMAIN initial \cup {e[1] : e \in StoredEntries} |->
        IF \E e \in StoredEntries : e[1] = k
           THEN (CHOOSE e \in StoredEntries : e[1] = k)[2]
           ELSE initial[k]]

\* C1: a resolve(K) that begins after a resolve(K) has returned Ok never
\* misses the cache (so the two calls make at most one external fetch), and
\* all values returned for K are identical.
C1_SecondResolveHits ==
    [][\A req \in requests :
          /\ Resolved(req) => ~Missed(req)
          /\ Cardinality(OkValues(req)) <= 1]_vars

C3_AtMostEightFetches == Fetching <= 8

\* all 8 permits are out on fetches and a further call that missed waits
C3_Witness ==
    /\ Fetching = 8
    /\ \E req \in requests : At(req, "acquire") >= 1

\* the entries of map m other than K's are loaded entries or the fetched
\* values of other requests
OthersUnaffected(m, req) ==
    \A k \in DOMAIN m \ {InsertKey(resolver, req)} :
        \/ k \in DOMAIN initial /\ m[k] = initial[k]
        \/ \E o \in requests \ {req} :
              /\ fetched[o] >= 1
              /\ k = InsertKey(resolver, o)
              /\ m[k] = Fetched(resolver, o)
HoldsFetched(m, req) ==
    /\ InsertKey(resolver, req) \in DOMAIN m
    /\ m[InsertKey(resolver, req)] = Fetched(resolver, req)
    /\ DOMAIN initial \subseteq DOMAIN m
    /\ OthersUnaffected(m, req)

C4_BothFetching == \E req \in requests : At(req, "fetch") >= 2

Count(seq, x) == Cardinality({i \in 1..Len(seq) : seq[i] = x})
SameMultiset(a, b) == \A x \in SetCodes : Count(a, x) = Count(b, x)

AllTasksCompleted == \A t \in 1..Len(tasks) : tasks[t].pc = "done"

\* the owned printings the collection file holds for a card
Persisted(name) == CollectionGet(FileEntries(disk), name)

\* C5: once every background task the UI spawned has completed, the
\* collection file holds, for every card of the checklist, the same multiset
\* of owned printings as the entry in memory.
C5_PersistedMatchesMemory ==
    (stage = "ui" /\ AllTasksCompleted) =>
        \A i \in 1..Len(checklist) :
            SameMultiset(Persisted(checklist[i].card.name),
                         checklist[i].owned_versions)

(***************************************************************************)
(* Properties of staples::fetch and of the Checklist.                      *)
(***************************************************************************)
Scraped == top8 \o goldfish
WithId(rows, id) == {i \in 1..Len(rows) : rows[i][1].id = id}
Greatest(S) == CHOOSE x \in S : \A y \in S : y <= x
Merged == stage \in {"fetched", "built", "failed"}

\* C6: every id the scrapers returned has exactly one entry in the result
\* of staples::fetch, and that entry carries the greatest percent_in_decks
\* of the scraped rows of that id that carry metadata.
C6_OneEntryWithMaxPercent ==
    Merged =>
        \A i \in 1..Len(Scraped) :
            LET id == Scraped[i][1].id
                percents == {Scraped[k][2][1].percent_in_decks :
                                k \in {k \in WithId(Scraped, id) : Scraped[k][2] # None}}
            IN  /\ Cardinality(WithId(staples, id)) = 1
                /\ percents # {} =>
                      \A j \in WithId(staples, id) :
                          /\ staples[j][2] # None
                          /\ staples[j][2][1].percent_in_decks = Greatest(percents)

\* Opt was scraped at 60% and at 95% and is in the result once, at 95%
C6_Witness ==
    /\ stage = "fetched"
    /\ \E i, k \in WithId(Scraped, Opt.id) :
          /\ Scraped[i][2][1].percent_in_decks = 60
          /\ Scraped[k][2][1].percent_in_decks = 95
    /\ \E j \in 1..Len(staples) :
          /\ staples[j][1] = Opt
          /\ staples[j][2][1].percent_in_decks = 95
    /\ Len(staples) = 2

\* C7: no two entries of the Checklist have the same card id, after
\* Checklist::new and after every add_version and remove_version; and
\* ignoring_collection refers to every entry once.
C7_NoDuplicateIds ==
    /\ \A i, j \in 1..Len(checklist) :
          checklist[i].card.id = checklist[j].card.id => i = j
    /\ view # None =>
          /\ Len(view[1]) = Len(checklist)
          /\ \A i, j \in 1..Len(view[1]) : view[1][i] = view[1][j] => i = j
          /\ \A i \in 1..Len(view[1]) : view[1][i] \in 1..Len(checklist)

\* a card was scraped twice, and the checklist built from it was edited and
\* re-sorted
C7_Witness ==
    /\ stage = "built"
    /\ Len(checklist) >= 2
    /\ Len(Scraped) > Len(staples)
    /\ edits = 0
    /\ view # None

Ids(list) == [i \in 1..Len(list) |-> list[i].card.id]
ViewIds(list, refs) == [i \in 1..Len(refs) |-> list[refs[i]].card.id]

\* the ignoring-collection order of the same staples with nothing owned
OrderWithNothingOwned ==
    LET rows == Filtered(staples)
    IN  Ids(SortBy("ignoring", [i \in 1..Len(rows) |-> EntryOf(rows[i], EmptyMap)]))

\* C10: ignoring the collection, an entry misses num_copies copies, and the
\* order ignoring_collection returns is the order of the same checklist with
\* nothing owned: it depends neither on the collection the checklist was
\* built with nor on the versions added and removed since.
C10_IgnoringOrderIgnoresOwned ==
    stage = "built" =>
        /\ \A i \in 1..Len(checklist) :
              missing_ignoring_collected(checklist[i]) = checklist[i].metadata.num_copies
        /\ ViewIds(checklist, ignoring_collection(checklist)) = OrderWithNothingOwned
        /\ view # None => ViewIds(checklist, view[1]) = OrderWithNothingOwned

\* owned versions were loaded and then edited, and the ignoring-collection
\* order is not the order of the checklist
C10_Witness ==
    /\ stage = "built"
    /\ collection # EmptyMap
    /\ edits = 0
    /\ view # None
    /\ \E i \in 1..Len(checklist) :
          /\ view[1][i] # i
          /\ checklist[i].owned_versions # <<>>
          /\ checklist[i].owned_versions
                # CollectionGet(collection, checklist[i].card.name)

(***************************************************************************)
(* Properties of the comparator.                                           *)
(***************************************************************************)
CopiesMissing(c) == MaxOf(c.metadata.num_copies - Len(c.owned_versions), 0)

\* C8: using the collection, an entry misses max(num_copies - |owned|, 0)
\* copies, and the entry with the strictly greater missing * percent_in_decks
\* ranks first.
C8_MissingTimesPercentRanksFirst ==
    usingOrd # None =>
        LET l == CopiesMissing(lhs) * lhs.metadata.percent_in_decks
            r == CopiesMissing(rhs) * rhs.metadata.percent_in_decks
        IN  /\ missing_using_collected(lhs) = CopiesMissing(lhs)
            /\ missing_using_collected(rhs) = CopiesMissing(rhs)
            /\ l > r => usingOrd = Some("Less")
            /\ l < r => usingOrd = Some("Greater")

\* {4 copies, 1 owned, 80%} against {4 copies, 4 owned, 100%}
C8_Witness ==
    /\ usingOrd = Some("Less")
    /\ lhs.metadata = [num_copies |-> 4, percent_in_decks |-> 80]
    /\ Len(lhs.owned_versions) = 1
    /\ rhs.metadata = [num_copies |-> 4, percent_in_decks |-> 100]
    /\ Len(rhs.owned_versions) = 4

Modes == {"using", "ignoring"}
Compared(mode) == IF mode = "using" THEN usingOrd[1] ELSE ignoringOrd[1]
Descending(a, b) == IF a > b THEN "Less" ELSE IF a < b THEN "Greater" ELSE "Equal"

\* the first of the four keys that differs decides
Lexicographic(mode, a, b) ==
    LET ma == IF mode = "using" THEN CopiesMissing(a) ELSE a.metadata.num_copies
        mb == IF mode = "using" THEN CopiesMissing(b) ELSE b.metadata.num_copies
        pa == a.metadata.percent_in_decks
        pb == b.metadata.percent_in_decks
    IN  IF ma * pa # mb * pb THEN Descending(ma * pa, mb * pb)
        ELSE IF pa # pb THEN Descending(pa, pb)
        ELSE IF colors_of(a.card) # colors_of(b.card)
                THEN option_slice_cmp(colors_of(a.card), colors_of(b.card))
        ELSE reverse(Descending(NameRank(a.card.name), NameRank(b.card.name)))

\* C9: in both modes the comparator is the lexicographic order on
\* (missing * percent descending, percent descending, colors ascending,
\* name ascending); it is antisymmetric and transitive, and it answers
\* Equal only for entries of the same name.
C9_LexicographicTotalOrder ==
    usingOrd # None =>
        \A mode \in Modes :
            LET o == Compared(mode)
            IN  /\ o \in {"Less", "Equal", "Greater"}
                /\ o = Lexicographic(mode, lhs, rhs)
                /\ cmp(mode, rhs, lhs) = reverse(o)
                /\ o = "Equal" => lhs.card.name = rhs.card.name
                /\ \A c \in ComparedEntries :
                      (o # "Greater" /\ cmp(mode, rhs, c) # "Greater")
                          => cmp(mode, lhs, c) # "Greater"

\* two entries that differ in the name only
C9_Witness ==
    /\ usingOrd = Some("Less")
    /\ ignoringOrd = Some("Less")
    /\ lhs.card = Delver
    /\ rhs.card = Opt
    /\ lhs.metadata = rhs.metadata
    /\ lhs.owned_versions = rhs.owned_versions

(***************************************************************************)
(* Properties of the stats.                                                *)
(***************************************************************************)
Scanned(i) == checklist[top_cards[i]]
NonLandOfColors(c, colors) == ~IsLand(c.card) /\ c.card.colors = Some(colors)
ColorlessNonLand(c) ==
    ~IsLand(c.card) /\ (c.card.colors = None \/ c.card.colors = Some(<<>>))
MulticolorNonLand(c) ==
    ~IsLand(c.card) /\ c.card.colors # None /\ Len(c.card.colors[1]) > 1

\* among the cards scanned so far every color has its 20 mono-color
\* non-land cards, 20 are colorless non-land and 10 are multicolor non-land
EnoughScanned ==
    /\ \A k \in 1..Len(WUBRG) :
          Cardinality({i \in 1..Len(top_cards) :
                          NonLandOfColors(Scanned(i), <<WUBRG[k]>>)}) >= MonoFull
    /\ Cardinality({i \in 1..Len(top_cards) : ColorlessNonLand(Scanned(i))})
          >= ColorlessFull
    /\ Cardinality({i \in 1..Len(top_cards) : MulticolorNonLand(Scanned(i))})
          >= MulticolorFull

\* C11: once the cards scanned so far hold 20 mono-color non-land cards of
\* each of the 5 colors, 20 colorless and 10 multicolor non-land cards, no
\* further card is scanned.
C11_ScanHaltsWhenFull == [][EnoughScanned => top_cards' = top_cards]_vars

\* the bucket of a card by the priority land > colorless > mono > multi,
\* a mono-color card in the bucket the stop condition reads for its color
BucketRead(card) ==
    IF IsLand(card) THEN LAND
    ELSE IF card.colors = None \/ card.colors = Some(<<>>) THEN COLORLESS
    ELSE IF Len(card.colors[1]) = 1 THEN trailing_zeros(card.colors[1][1])
    ELSE MULTICOLOR

\* C12: scanning an entry increments exactly one of the 8 counters, the
\* one of its bucket: land before colorless before mono-color before
\* multicolor, a mono-color card of color c in the bucket the stop
\* condition reads for c.
C12_OneBucketPerEntry ==
    [][top_cards' # top_cards =>
          counters' = [counters EXCEPT
                         ![BucketRead(checklist[Len(top_cards) + 1].card) + 1] = @ + 1]]_vars

\* C13: the i-th entry the scan examines is the i-th entry of the checklist
\* sorted by cmp_ignoring_collected.
C13_ScanInIgnoringOrder ==
    \A i \in 1..Len(top_cards) :
        top_cards[i] = StableSortRefs("ignoring", checklist, Len(checklist))[i]

\* the positions of the ranked scanned entries that satisfy a predicate,
\* and the first n of them
Matches(tag) == {p \in 1..Len(ranked) : Pred(tag, checklist[ranked[p]])}
FirstMatches(tag, n) ==
    {p \in Matches(tag) : Cardinality({q \in Matches(tag) : q < p}) < n}

\* sums over positions, by counting one pair (position, k) per copy
MostCopies ==
    CHOOSE m \in {checklist[i].metadata.num_copies : i \in 1..Len(checklist)} :
        \A i \in 1..Len(checklist) : checklist[i].metadata.num_copies <= m
SumOfCopies(positions) ==
    Cardinality({pk \in positions \X (1..MostCopies) :
                    pk[2] <= checklist[ranked[pk[1]]].metadata.num_copies})
SumOfOwned(positions) ==
    Cardinality({pk \in positions \X (1..MostCopies) :
                    /\ pk[2] <= checklist[ranked[pk[1]]].metadata.num_copies
                    /\ pk[2] <= Len(checklist[ranked[pk[1]]].owned_versions)})

\* every summary of a Stats: its predicate, its N, its Progress
Reports(st) ==
    {<<"all", 20, st.top_20>>, <<"all", 50, st.top_50>>, <<"all", 150, st.top_150>>,
     <<"white", 20, st.top_20_by_color[1]>>, <<"blue", 20, st.top_20_by_color[2]>>,
     <<"black", 20, st.top_20_by_color[3]>>, <<"red", 20, st.top_20_by_color[4]>>,
     <<"green", 20, st.top_20_by_color[5]>>,
     <<"colorless", 10, st.top_10_colorless>>,
     <<"multicolor", 20, st.top_20_multicolor>>,
     <<"lands", 10, st.top_10_lands>>}

\* C14: the summaries are taken over the scanned entries in
\* ignoring-collection order; each is the sum of min(owned, num_copies) and
\* the sum of num_copies over the first N entries that satisfy its
\* predicate, so that owned <= total.
C14_TopNSummaries ==
    stats # None =>
        /\ {ranked[p] : p \in 1..Len(ranked)} = {top_cards[i] : i \in 1..Len(top_cards)}
        /\ Len(ranked) = Len(top_cards)
        /\ \A p \in 1..(Len(ranked) - 1) :
              cmp("ignoring", checklist[ranked[p]], checklist[ranked[p + 1]]) # "Greater"
        /\ \A r \in Reports(stats[1]) :
              /\ r[3].total = SumOfCopies(FirstMatches(r[1], r[2]))
              /\ r[3].owned = SumOfOwned(FirstMatches(r[1], r[2]))
              /\ r[3].owned <= r[3].total

\* more than 10 scanned entries are colorless, and one of the first 10 has
\* more owned versions than num_copies
C14_Witness ==
    /\ stats # None
    /\ Cardinality(Matches("colorless")) > 10
    /\ \E p \in FirstMatches("colorless", 10) :
          Len(checklist[ranked[p]].owned_versions)
              > checklist[ranked[p]].metadata.num_copies
    /\ stats[1].top_10_colorless.owned < stats[1].top_10_colorless.total

(***************************************************************************)
(* Properties of the basic-land filter.                                    *)
(***************************************************************************)
Built == stage = "built"
InChecklist(card) == \E i \in 1..Len(checklist) : checklist[i].card = card
StapleCards == {staples[i][1] : i \in 1..Len(staples)}
MarkedBasic(card) ==
    card.type_line # None /\ \E i \in 1..Len(card.type_line[1]) :
                                 card.type_line[1][i] = "Basic"

\* C15 as stated: a staple named Plains, Island, Swamp, Mountain or Forest
\* never appears in the checklist, whatever its type text (absent included).
C15_NamedBasicsExcluded ==
    Built => \A card \in StapleCards :
                 is_basic_land(card.name) => ~InChecklist(card)

\* C15, amended: a staple named Plains, Island, Swamp, Mountain or Forest
\* is left out of the checklist exactly when its type text is present and
\* contains "Basic"; with an absent type text it is kept.
C15_NamedBasicsExcludedByTypeText ==
    Built => \A card \in StapleCards :
                 is_basic_land(card.name) =>
                     (InChecklist(card) <=> ~MarkedBasic(card))

\* a checklist built from both Forests: the one with a type line is left
\* out, the one without is in
C15_Witness ==
    /\ Built
    /\ {Forest, UntypedForest} \subseteq StapleCards
    /\ ~InChecklist(Forest)
    /\ InChecklist(UntypedForest)

\* C16 as stated: every staple whose name is not one of the five basic land
\* names is in the checklist Checklist::new built, also when its type text
\* contains "Basic".
C16_OtherNamesIncluded ==
    Built => \A card \in StapleCards :
                 ~is_basic_land(card.name) => InChecklist(card)

\* C16, amended: a staple whose name is not one of the five basic land names
\* is in the checklist Checklist::new built exactly when its type text is
\* absent or does not contain "Basic".
C16_OtherNamesIncludedUnlessMarkedBasic ==
    Built => \A card \in StapleCards :
                 ~is_basic_land(card.name) =>
                     (InChecklist(card) <=> ~MarkedBasic(card))

\* a checklist built from Opt and Snow-Covered Forest: Opt is in, the snow
\* land is left out
C16_Witness ==
    /\ Built
    /\ {Opt, SnowForest} \subseteq StapleCards
    /\ InChecklist(Opt)
    /\ ~InChecklist(SnowForest)

(***************************************************************************)
(* Properties of the names used as keys.                                   *)
(***************************************************************************)
\* the key Collection::get looks a name up under
CollectionKey(name) == trimming_double_faced(name)

\* C17: the key a requested name is looked up under is the key its fetched
\* card is inserted under, so a value resolve has returned is in the map
\* under the lookup key of its request; and "Fire // Ice" and "Fire" have
\* one collection key.
C17_LookupKeyIsInsertKey ==
    /\ \A p \in returned :
           /\ LookupKey(resolver, p[1]) \in DOMAIN cache
           /\ cache[LookupKey(resolver, p[1])] = p[2]
    /\ CollectionKey("Fire // Ice") = CollectionKey("Fire")

\* the names fix_lotr_accented_cards rewrites
Transliterated == {Lorien, Troll}
HasSlash(name) == \E i \in 1..Len(name) : name[i] = "/"
Spaces(n) == [i \in 1..n |-> " "]
\* the text of a name before its first '/'
BeforeFirstSlash(name) ==
    SubSeq(name, 1, (CHOOSE i \in 1..Len(name) :
                        name[i] = "/" /\ \A j \in 1..(i - 1) : name[j] # "/") - 1)
\* text is what is left of padded without the spaces at its two ends
IsTrimOf(text, padded) ==
    /\ text # <<>> => text[1] # " " /\ text[Len(text)] # " "
    /\ \E before, after \in 0..Len(padded) :
           padded = Spaces(before) \o text \o Spaces(after)

\* C18: "Lorien Revealed" and "Lórien Revealed" are given one key, by
\* card_name and by get_cached;
\* "Fire // Ice" is trimmed to "Fire", as every name with a '/' is trimmed to
\* the text before its first '/' without the spaces around it; a name
\* without '/' that is not in the transliteration table stays as it is.
C18_Normalization ==
    /\ LookupKey("card", "Lorien Revealed") = LookupKey("card", "Lórien Revealed")
    /\ cname # None =>
           /\ raw \in {Lorien, LorienAccented} => cname[1] = LorienAccented
           /\ raw \notin Transliterated => cname[1] = raw
    /\ trimmed # None =>
           /\ raw = FireIceName => trimmed[1] = FireName
           /\ HasSlash(raw) => IsTrimOf(trimmed[1], BeforeFirstSlash(raw))
           /\ (~HasSlash(raw) /\ raw \notin Transliterated) => trimmed[1] = raw

\* "Fire // Ice" has been trimmed to "Fire"
C18_Witness ==
    /\ raw = FireIceName
    /\ trimmed = Some(FireName)

(***************************************************************************)
(* Properties of the files on first use and of a failed fetch.             *)
(***************************************************************************)
\* a process that starts on this file loads it as the empty map:
\* tokio::fs::read succeeds and serde_json::from_slice gives {}
LoadsAsEmptyMap(f) == Decodes(f) /\ from_slice(f) = EmptyMap

\* C19: once the first use has loaded an absent cache file as the empty
\* map, and as long as nothing has been inserted, the file holds
\* an empty JSON object: a later start loads it as the empty map without
\* error.
C19_FirstUseLeavesEmptyObject ==
    (loaded /\ initial = EmptyMap /\ cache = EmptyMap /\ ~ioFailed)
        => LoadsAsEmptyMap(file)

\* a call for req comes out of its external fetch without a value
FetchFails(req) ==
    /\ calls'[<<req, "fetch">>] = calls[<<req, "fetch">>] - 1
    /\ calls'[<<req, "insert">>] = calls[<<req, "insert">>]
\* the calls that have missed the cache and not returned yet
Pending == {s \in DOMAIN calls : calls[s] > 0}
NoFetchAnswered == \A req \in requests : fetched[req] = 0

AScraperFailed == top8Task = "err" \/ goldfishTask = "err"

\* C21: when a scraper has failed, staples::fetch does not panic; it returns
\* the error (or is still running), and it returns no staples.
C21_ScraperErrorsPropagate ==
    AScraperFailed =>
        /\ stage \in {"scraping", "fetch_err"}
        /\ staples = <<>>

\* the rows a category page shows
Shown(cat) == IF pages[cat].kind = "table" THEN pages[cat].rows ELSE <<>>
AllShown == UNION {{Shown(cat)[i] : i \in 1..Len(Shown(cat))} : cat \in Categories}
Without(cat) == Categories \ {cat}
Others(cat) == CHOOSE pair \in Without(cat) \X Without(cat) : pair[1] # pair[2]

\* C26: a category page without a table is no error and gives no rows: if
\* goldfish::fetch fails, some page could not be fetched or a lookup of one
\* of its cards failed; if it succeeds while a category has no table, it
\* returns the rows of the two other categories, each as often as shown.
C26_NoTableIsNotFatal ==
    /\ goldfishTask = "err" =>
           \E cat \in Categories :
               pages[cat].kind = "http_error" \/ pages[cat].failing
    /\ goldfishTask = "ok" =>
           \A cat \in Categories :
               pages[cat].kind = "no_table" =>
                   /\ Len(goldfish) = Len(Shown(Others(cat)[1]))
                                          + Len(Shown(Others(cat)[2]))
                   /\ \A row \in AllShown :
                          Count(goldfish, row) =
                              Count(Shown(Others(cat)[1]), row)
                                  + Count(Shown(Others(cat)[2]), row)

\* the spells page has no table, the two other pages have rows, and
\* goldfish::fetch has returned their three rows
C26_Witness ==
    /\ goldfishTask = "ok"
    /\ pages["spells"].kind = "no_table"
    /\ Len(goldfish) = 3

(***************************************************************************)
(* Properties of the checklist as built and as edited.                     *)
(***************************************************************************)
JustBuilt == stage = "built" /\ edits = MaxEdits
Surviving == {i \in 1..Len(staples) : ~MarkedBasic(staples[i][1])}
EntriesOf(card) == {j \in 1..Len(checklist) : checklist[j].card = card}

\* C22: the checklist Checklist::new returns has one entry for each staple
\* that survives the basic-land filter and no other entry, and it is sorted:
\* no entry compares Greater than its successor by cmp_using_collected.
C22_OneEntryPerStapleSorted ==
    JustBuilt =>
        /\ \A i \in Surviving : Cardinality(EntriesOf(staples[i][1])) = 1
        /\ Len(checklist) = Cardinality(Surviving)
        /\ \A j \in 1..(Len(checklist) - 1) :
               cmp_using_collected(checklist[j], checklist[j + 1]) # "Greater"

\* a checklist of two entries was built from three staples, one of them a
\* basic land, with owned versions read from the collection
C22_Witness ==
    /\ JustBuilt
    /\ Len(staples) = 3
    /\ Len(checklist) = 2
    /\ \E j \in 1..Len(checklist) : checklist[j].owned_versions # <<>>

\* the entries whose owned list a step changes
Touched ==
    {i \in 1..Len(checklist) :
        checklist'[i].owned_versions # checklist[i].owned_versions}

\* C23: once the checklist is built, a step keeps its length and, at every
\* index, the card, the printings and the metadata; add_version and
\* remove_version change the owned list of one entry at most, and every
\* other step (ignoring_collection) changes no owned list.
C23_OnlyOwnedVersionsMutate ==
    [][(stage = "built" /\ stage' = "built") =>
          /\ Len(checklist') = Len(checklist)
          /\ \A i \in 1..Len(checklist) :
                 /\ checklist'[i].card = checklist[i].card
                 /\ checklist'[i].printings = checklist[i].printings
                 /\ checklist'[i].metadata = checklist[i].metadata
          /\ Cardinality(Touched) <= 1
          /\ edits' = edits => Touched = {}]_vars

\* an entry owns other versions than the collection gave it, and the
\* checklist has been re-sorted for the view since
C23_Witness ==
    /\ stage = "built"
    /\ Len(checklist) >= 2
    /\ view # None
    /\ \E i \in 1..Len(checklist) :
           checklist[i].owned_versions
               # CollectionGet(collection, checklist[i].card.name)

(***************************************************************************)
(* Properties of the cache file: round trip, contents that do not decode.  *)
(***************************************************************************)
\* the call for req writes the file and returns Ok
WriteSucceeds(req) ==
    /\ calls'[<<req, "write">>] = calls[<<req, "write">>] - 1
    /\ failed' = failed

C25_CorruptFileIsFatal ==
    [][file = CorruptFile =>
          /\ file' = file
          /\ ~loaded'
          /\ returned' = {}
          /\ NoFetchAnswered'
          /\ \A s \in DOMAIN calls : calls'[s] = 0
          /\ budget' < budget => failed' = failed + 1]_vars

\* two calls, for two keys or one, have failed on a file that does not decode
C25_Witness ==
    /\ file = CorruptFile
    /\ failed = 2
    /\ budget = MaxCalls - 2

(***************************************************************************)
(* C27: every entry carries metadata.  The text a scraper reads as the     *)
(* percent of a row gives the percent of the entry when it is a number     *)
(* and 100 when it is missing or not a number; the text read as the copy   *)
(* count gives the count (rounded up, at most 255) when it is a number     *)
(* and 4 when it is missing or not a number, each whatever the other       *)
(* is; a staple without metadata gets 100 and 4.                           *)
(***************************************************************************)
\* the numbers among the texts of the model, and what they are worth
PercentWorth ==
    [t \in {<<"9", "5">>, <<"6", "0">>, <<"1", ".", "0">>, <<"4">>,
             <<"3", "0", "0">>, <<"7">>} |->
        CASE t = <<"9", "5">> -> 95
          [] t = <<"6", "0">> -> 60
          [] t = <<"1", ".", "0">> -> 1
          [] t = <<"4">> -> 4
          [] t = <<"3", "0", "0">> -> 300
          [] t = <<"7">> -> 7]
CopiesWorth ==
    [t \in {<<"4">>, <<"2", ".", "3">>, <<"3", "0", "0">>, <<".", "5">>,
             <<"1", ".", "0">>, <<"7">>, <<"9", "5">>, <<"6", "0">>} |->
        CASE t = <<"4">> -> 4
          [] t = <<"2", ".", "3">> -> 3
          [] t = <<"3", "0", "0">> -> 255
          [] t = <<".", "5">> -> 1
          [] t = <<"1", ".", "0">> -> 1
          [] t = <<"7">> -> 7
          [] t = <<"9", "5">> -> 95
          [] t = <<"6", "0">> -> 60]
\* the texts the scraper of the row hands to the parser, None when missing
PercentRead ==
    CASE cells.site = "goldfish" ->
           IF GoldfishValues(cells) = <<>> THEN None
           ELSE Some(TrimEndMatches(GoldfishValues(cells)[1], "%"))
      [] cells.site = "mtgtop8" ->
           IF cells.percent = None THEN None ELSE FirstToken(cells.percent[1])
      [] OTHER -> None
CopiesRead ==
    CASE cells.site = "goldfish" ->
           IF Len(GoldfishValues(cells)) < 2 THEN None
           ELSE Some(GoldfishValues(cells)[2])
      [] cells.site = "mtgtop8" ->
           IF cells.copies = None THEN None ELSE FirstToken(cells.copies[1])
      [] OTHER -> None
C27_DefaultsFieldByField ==
    entryMeta # None =>
        /\ entryMeta[1].percent_in_decks =
              IF PercentRead # None /\ PercentRead[1] \in DOMAIN PercentWorth
                 THEN PercentWorth[PercentRead[1]] ELSE 100
        /\ entryMeta[1].num_copies =
              IF CopiesRead # None /\ CopiesRead[1] \in DOMAIN CopiesWorth
                 THEN CopiesWorth[CopiesRead[1]] ELSE 4
\* an entry whose percent was read and whose copy count was defaulted
C27_Witness ==
    /\ entryMeta # None
    /\ cells.site = "mtgtop8"
    /\ cells.percent = Some(<<"6", "0", " ", "%">>)
    /\ cells.copies = Some(<<"n", "/", "a">>)
    /\ entryMeta[1] = [percent_in_decks |-> 60, num_copies |-> 4]
(***************************************************************************)
(* C28: deckbuilder::check stops with an error that names the line at the  *)
(* first line that, trimmed, is not empty, "Deck" or "Sideboard" and does  *)
(* not start with a count followed by whitespace; nothing is displayed     *)
(* then.                                                                   *)
(***************************************************************************)
\* the text is a number of 8 bits without sign, as Rust reads one
IsU8(t) ==
    LET d == IF t # <<>> /\ t[1] = "+" THEN Tail(t) ELSE t
    IN  d # <<>> /\ (\A i \in 1..Len(d) : d[i] \in Digits) /\ Decimal(d) <= 255
\* the text is a count followed by at most `most` letters x
Counted(head, most) ==
    \E n \in 0..most :
        /\ n <= Len(head)
        /\ \A i \in (Len(head) - n + 1)..Len(head) : head[i] = "x"
        /\ IsU8(SubSeq(head, 1, Len(head) - n))
\* the trimmed line is one the check reads
WellFormed(line, most) ==
    \/ line \in {<<>>, DeckWord, SideboardWord}
    \/ \E k \in 1..Len(line) :
          /\ line[k] = " "
          /\ \A j \in 1..(k - 1) : line[j] # " "
          /\ Counted(SubSeq(line, 1, k - 1), most)
Malformed(i, most) == ~WellFormed(Trim(deck[i]), most)
AbortsAtFirstMalformed(most) ==
    /\ \A i \in 1..cursor :
          Malformed(i, most) =>
              i = cursor /\ verdict = "err" /\ named = Some(Trim(deck[i]))
    /\ verdict = "err" => cursor >= 1 /\ Malformed(cursor, most)
    /\ verdict = "displayed" => \A i \in 1..Len(deck) : ~Malformed(i, most)
\* C28 as stated: the count is suffixed by one x at most
C28_AbortsAtFirstMalformedLine == AbortsAtFirstMalformed(1)
\* C28 amended: the count is followed by any number of letters x
C28_AbortsAtFirstLineWithoutCount == AbortsAtFirstMalformed(MaxName + LongDeck)
\* a line with two x is read, the line after it stops the check
C28_Witness ==
    /\ deck = <<<<"4", "x", "x", " ", "O", "p", "t">>, <<"4", "O", "p", "t">>>>
    /\ cursor = 2
    /\ verdict = "err"
    /\ named = Some(<<"4", "O", "p", "t">>)
    /\ OptName \in DOMAIN decklist
    /\ decklist[OptName] = [owned |-> 2, count |-> 4]
(***************************************************************************)
(* C29: where the fetches and the file operations end, the calls in        *)
(* flight all return: the lock and the permit pool never leave a call      *)
(* waiting for ever, and once no call is in flight the pool holds its      *)
(* 8 permits again, whichever way the calls ended.                         *)
(***************************************************************************)
C29_EveryCallReturns ==
    /\ (InFlight # {}) ~> (InFlight = {})
    /\ [](InFlight = {} => permits = Permits /\ ~writeLocked)
\* more calls than permits were made and all have returned, some with the
\* value, some with a fetch error, some with a file error
C29_Witness ==
    /\ budget = 0
    /\ InFlight = {}
    /\ permits = Permits
    /\ returned # {}
    /\ ioFailed
    /\ failed >= 2
(***************************************************************************)
(* C30: the staples are the same in whatever order the rows of the         *)
(* scrapers arrive: every arrangement of the rows gives the sequence of    *)
(* (id, percent_in_decks, num_copies) this run has returned.               *)
(***************************************************************************)
Triples(rows) ==
    [i \in 1..Len(rows) |->
        <<rows[i][1].id, rows[i][2][1].percent_in_decks, rows[i][2][1].num_copies>>]
Outcomes(rows) == {Triples(Dedup(sorted)) : sorted \in SortUnstable(rows)}
Arrangements(rows) == {Permuted(rows, f) : f \in Perms(Len(rows))}
C30_ArrivalOrderDoesNotMatter ==
    stage = "fetched" =>
        \A arranged \in Arrangements(top8 \o goldfish) :
            Outcomes(arranged) = {Triples(staples)}
(***************************************************************************)
(* C31: a call for a key the cache holds returns the cached value in one   *)
(* step that fetches nothing, takes no permit and leaves the file as it    *)
(* is; it can be made whenever the lock is not held for writing, also      *)
(* while the permits are all taken.                                        *)
(***************************************************************************)
\* the map a call finds: the loaded one, or the one of the file
Found == IF loaded THEN cache ELSE FileEntries(file)
Hits(req) == LookupKey(resolver, req) \in DOMAIN Found
C31_HitNeedsNoPermit ==
    /\ [][\A req \in requests :
            CallChecks(req) /\ Hits(req) =>
                /\ <<req, Found[LookupKey(resolver, req)]>> \in returned'
                /\ UNCHANGED <<fetched, permits, calls, file, bytes, failed>>]_vars
    /\ [](\A req \in requests :
            budget > 0 /\ Hits(req) /\ ~writeLocked => ENABLED CallChecks(req))
\* a call hits while 8 misses hold the 8 permits
C31_Witness ==
    /\ permits = 0
    /\ Holders = Permits
    /\ fetched = [req \in requests |-> 0]
    /\ \E req \in requests : \E v \in {Fetched(resolver, req)} : <<req, v>> \in returned
(***************************************************************************)
(* C32: the file is loaded once.  The step that initializes the cell       *)
(* takes the map of the file; from then on the cell stays initialized,     *)
(* the map changes by the inserts of the calls only and the file is not    *)
(* read again; a call that fails to load leaves the cell uninitialized     *)
(* and the file as it is, and the next call tries again.                   *)
(***************************************************************************)
C32_LoadedOnce ==
    /\ [][/\ loaded =>
               /\ loaded'
               /\ initial' = initial
               /\ \/ cache' = cache
                  \/ \E req \in requests :
                        cache' = Put(cache, InsertKey(resolver, req),
                                     Fetched(resolver, req))
          /\ ~loaded /\ loaded' =>
               /\ file.state \in {"absent", "json"}
               /\ cache' = FileEntries(file)
               /\ initial' = cache'
          /\ ~loaded /\ ~loaded' =>
               /\ file.state \notin {"absent", "json"}
               /\ failed' = failed + 1
               /\ UNCHANGED <<file, cache, calls>>]_vars
    /\ [](~loaded /\ budget > 0 =>
            \A req \in requests :
                ENABLED (CallChecks(req) \/ CallFailsToLoad(req)))
\* the map was loaded from the file, a call has inserted into it and the
\* calls after it have read the same map
C32_Witness ==
    /\ loaded
    /\ budget = 0
    /\ initial # EmptyMap
    /\ cache # initial
    /\ InFlight = {}
    /\ Cardinality(returned) >= 2
(***************************************************************************)
(* C33: each summary is the summary of the first N entries that satisfy    *)
(* its predicate in ignoring_collection() of the whole checklist: the      *)
(* first N taken from the sorted scanned entries are the same entries.     *)
(* (The scan of calculate ends at the end of the checklist only, see the   *)
(* counters of C11 and C12, so the scanned entries are all the entries.)   *)
(***************************************************************************)
\* the whole checklist in ignoring-collected order, as a stable sort gives it
WholeRanked == StableSortRefs("ignoring", checklist, Len(checklist))
\* the entries among the first n of a ranking that satisfy the predicate
FirstOf(refs, tag, n) ==
    {refs[p] : p \in {q \in 1..Len(refs) :
                        /\ Pred(tag, checklist[refs[q]])
                        /\ Cardinality({k \in 1..(q - 1) :
                               Pred(tag, checklist[refs[k]])}) < n}}
DistinctNames(rows) ==
    \A i, j \in 1..Len(rows) : rows[i][1].name = rows[j][1].name => i = j
\* the checklist of the entries collected in the order f
CollectedIn(rows, f) ==
    SortBy("using", [i \in 1..Len(rows) |-> EntryOf(rows[f[i]], collection)])
C34_CompletionOrderDoesNotMatter ==
    JustBuilt /\ DistinctNames(Filtered(staples)) =>
        \A f \in Perms(Len(Filtered(staples))) :
            CollectedIn(Filtered(staples), f) = checklist
\* two entries that only their names tell apart: they miss as much, are in
\* as many decks and have the same colors
C34_Witness ==
    /\ JustBuilt
    /\ Len(checklist) = 2
    /\ DistinctNames(Filtered(staples))
    /\ Missing("using", checklist[1]) * checklist[1].metadata.percent_in_decks
          = Missing("using", checklist[2]) * checklist[2].metadata.percent_in_decks
    /\ checklist[1].metadata.percent_in_decks = checklist[2].metadata.percent_in_decks
    /\ colors_of(checklist[1].card) = colors_of(checklist[2].card)
(***************************************************************************)
(* C35: on every entry of the checklist and for every set code,            *)
(* add_version leaves one more occurrence of the code and a count          *)
(* (v.len()) greater by one; remove_version leaves one occurrence fewer    *)
(* and a count smaller by one where the code is owned, and the owned list  *)
(* as it is where it is not; the other codes keep their occurrences, and   *)
(* add_version followed by remove_version gives the owned multiset back.   *)
(***************************************************************************)
Occurrences(v, code) == Cardinality({i \in 1..Len(v) : v[i] = code})
KnownCodes == Codes \cup {"xln"}
SameOwned(v, w) == \A c \in KnownCodes : Occurrences(v, c) = Occurrences(w, c)
C35_AddRemoveVersion ==
    stage = "built" =>
        \A i \in 1..Len(checklist), code \in Codes :
            LET owned == checklist[i].owned_versions
                added == add_version(checklist[i], code).owned_versions
                removed == remove_version(checklist[i], code).owned_versions
            IN  /\ Occurrences(added, code) = Occurrences(owned, code) + 1
                /\ Len(added) = Len(owned) + 1
                /\ \A c \in KnownCodes \ {code} :
                       /\ Occurrences(added, c) = Occurrences(owned, c)
                       /\ Occurrences(removed, c) = Occurrences(owned, c)
                /\ IF Occurrences(owned, code) > 0
                      THEN /\ Occurrences(removed, code) = Occurrences(owned, code) - 1
                           /\ Len(removed) = Len(owned) - 1
                      ELSE removed = owned
                /\ Len(removed) >= 0
                /\ SameOwned(
                       remove_version(add_version(checklist[i], code), code).owned_versions,
                       owned)
\* after two edits an entry owns a code twice among others: adding the code
\* and removing it gives the same multiset in another order
C35_Witness ==
    /\ stage = "built"
    /\ edits = 0
    /\ \E i \in 1..Len(checklist), code \in Codes :
          /\ Occurrences(checklist[i].owned_versions, code) >= 2
          /\ checklist[i].owned_versions
                # CollectionGet(collection, checklist[i].card.name)
          /\ remove_version(add_version(checklist[i], code), code).owned_versions
                # checklist[i].owned_versions
(***************************************************************************)
(* C36: whatever lines have been added, the entry of a basic land has      *)
(* owned = count: the report shows it as owned in full and the wishlist    *)
(* does not hold it.                                                       *)
(***************************************************************************)
\* Decklist::display: the entry is marked as owned in full
FullyOwned(entry) == saturating_sub(entry.count, entry.owned) = 0
\* Decklist::display: the entry is in the wishlist
InWishlist(entry) == entry.count >= entry.owned /\ entry.count - entry.owned # 0
C36_BasicLandsFullyOwned ==
    \A name \in DOMAIN decklist \cap BasicNameChars :
        /\ decklist[name].owned = decklist[name].count
        /\ FullyOwned(decklist[name])
        /\ ~InWishlist(decklist[name])
====
